---- MODULE Spec2Model ----
(***************************************************************************)
(* Avalanche consensus service: the DAG store (src/dag/dag.go), the        *)
(* consensus engine (src/consensus/avalanche.go) and the consensus         *)
(* service that starts and stops the engine's worker loop.                 *)
(*                                                                         *)
(* SpecDag drives the DAG store through its own public operations.         *)
(* Spec drives the engine: AddVertex callers, consensus worker loops and   *)
(* StartConsensus/StopConsensus, interleaved at the engine-lock            *)
(* boundaries of the code; an AddVertex call holds the engine lock from    *)
(* start to end and is one step there.                                     *)
(* SpecCall follows one AddVertex call through its DAG calls, beside a     *)
(* running worker loop.                                                    *)
(***************************************************************************)
EXTENDS Integers, Sequences, FiniteSets, TLC

\* ------------------------------------------------------------------ bounds
NumIds == 2          \* vertex ids the engine's callers insert: 1..NumIds
NumDagIds == 3       \* vertex ids of the DAG store's direct callers
NumData == 2         \* payloads are 1..NumData (compared only for equality)
MaxParents == 2      \* longest parentIDs list a caller passes
MaxLoops == 2        \* worker goroutines alive at once
MaxK == 3            \* largest sample size K the sampler is asked for
NumPeers == 2        \* peers a node can have in its directory
NumAddrs == 2        \* addresses a message or a connect request can come from

Ids == 1..NumIds
DagIds == 1..NumDagIds
Datas == 1..NumData
Loops == 1..MaxLoops
Peers == 1..NumPeers
Addrs == 1..NumAddrs

VARIABLES
    vertices,    \* DAG.vertices: id -> vertex record
    roots,       \* DAG.roots: ids of the vertices marked as roots
    last,        \* the caller's latest call and what it returned; for
                 \* ProposeVertex also how far it is and its transmissions
    pending,     \* Avalanche.pending: id -> confidence count
    finalized,   \* Avalanche.finalized: ids mapped to true
    params,      \* Avalanche.params: K, Alpha, BetaVirtuous, BetaRogue
    av,          \* the engine AddVertex call holding the engine lock
    isRunning,   \* ConsensusService.isRunning
    stopChan,    \* ConsensusService.stopChan: the worker slot whose channel it is
    loops,       \* the RunConsensus goroutines, by slot
    locks,       \* Avalanche.mu and DAG.mu: the writer and the readers of each
    net          \* PeerService.peers, the vertex messages in flight to this
                 \* node, the messages it has sent, the engine of a remote node

vars == <<vertices, roots, last, pending, finalized, params, av, isRunning, stopChan, loops, locks, net>>
dagVars == <<vertices, roots>>
engineVars == <<pending, finalized, params, av, isRunning, stopChan, loops, locks, net>>
engineVarsButNet == <<pending, finalized, params, av, isRunning, stopChan, loops, locks>>

\* ---------------------------------------------------------------- helpers
Keys(f) == DOMAIN f
MapPut(f, k, v) == [x \in (DOMAIN f) \cup {k} |-> IF x = k THEN v ELSE f[x]]
MapDelete(f, k) == [x \in (DOMAIN f) \ {k} |-> f[x]]
EmptyMap == [x \in {} |-> 0]
Range(s) == {s[i] : i \in DOMAIN s}

\* ============================================================== DAG store
\* A DAG value is [vertices, roots]; the operations below are the bodies of
\* the DAG methods, each run under the DAG's own lock.

NewVertex(data) ==
    [data |-> data, parents |-> {}, children |-> {},
     preferred |-> FALSE, finalized |-> FALSE]

NewDAG == [vertices |-> EmptyMap, roots |-> {}]

\* dfs of wouldCreateCycle: starts at the child, follows Parents, looks for
\* the parent; visited ids are not expanded again.  calls lists the
\* vertices the closure was called on, in order.
RECURSIVE dfs(_, _, _, _)
RECURSIVE dfsParents(_, _, _, _)
dfs(vs, parentID, v, visited) ==
    IF v = parentID
    THEN [found |-> TRUE, visited |-> visited, calls |-> <<v>>]
    ELSE LET r == dfsParents(vs, parentID, vs[v].parents, visited \cup {v})
         IN  [r EXCEPT !.calls = <<v>> \o @]

\* The loop over v.Parents that forgets what the search below an earlier
\* parent has visited.
dfsParents_ForgetsVisited(vs, parentID, ps, visited) ==
    IF ps = {}
    THEN [found |-> FALSE, visited |-> visited, calls |-> <<>>]
    ELSE LET p == CHOOSE x \in ps : TRUE
             r == IF p \in visited
                  THEN [found |-> FALSE, visited |-> visited, calls |-> <<>>]
                  ELSE dfs(vs, parentID, p, visited)
         IN  IF r.found THEN r
             ELSE LET q == dfsParents(vs, parentID, ps \ {p}, visited)
                  IN  [q EXCEPT !.calls = r.calls \o @]

dfsParents(vs, parentID, ps, visited) ==
    IF ps = {}
    THEN [found |-> FALSE, visited |-> visited, calls |-> <<>>]
    ELSE LET p == CHOOSE x \in ps : TRUE
             r == IF p \in visited
                  THEN [found |-> FALSE, visited |-> visited, calls |-> <<>>]
                  ELSE dfs(vs, parentID, p, visited)
         IN  IF r.found THEN r
             ELSE LET q == dfsParents(vs, parentID, ps \ {p}, r.visited)
                  IN  [q EXCEPT !.calls = r.calls \o @]

wouldCreateCycle(vs, parentID, childID) == dfs(vs, parentID, childID, {}).found

\* AddVertex without the check for an existing id.
DagAddVertex_Overwrite(d, id, data) ==
    [d |-> [vertices |-> MapPut(d.vertices, id, NewVertex(data)),
            roots |-> d.roots \cup {id}],
     err |-> "ok"]

DagAddVertex(d, id, data) ==
    IF id \in Keys(d.vertices)
    THEN [d |-> d, err |-> "AlreadyExists"]
    ELSE [d |-> [vertices |-> MapPut(d.vertices, id, NewVertex(data)),
                 roots |-> d.roots \cup {id}],
          err |-> "ok"]

\* AddEdge that records the parent in the child but not the child in the
\* parent.
DagAddEdge_NoChildLink(d, parentID, childID) ==
    IF parentID \notin Keys(d.vertices) THEN [d |-> d, err |-> "NotFound"]
    ELSE IF childID \notin Keys(d.vertices) THEN [d |-> d, err |-> "NotFound"]
    ELSE IF wouldCreateCycle(d.vertices, parentID, childID)
         THEN [d |-> d, err |-> "WouldCreateCycle"]
    ELSE [d |-> [vertices |-> [d.vertices EXCEPT ![childID].parents = @ \cup {parentID}],
                 roots |-> d.roots \ {childID}],
          err |-> "ok"]

\* AddEdge that leaves the child among the roots.
DagAddEdge_KeepsRoot(d, parentID, childID) ==
    IF parentID \notin Keys(d.vertices) THEN [d |-> d, err |-> "NotFound"]
    ELSE IF childID \notin Keys(d.vertices) THEN [d |-> d, err |-> "NotFound"]
    ELSE IF wouldCreateCycle(d.vertices, parentID, childID)
         THEN [d |-> d, err |-> "WouldCreateCycle"]
    ELSE LET vs1 == [d.vertices EXCEPT
                        ![parentID].children = @ \cup {childID}]
             vs2 == [vs1 EXCEPT ![childID].parents = @ \cup {parentID}]
         IN  [d |-> [vertices |-> vs2, roots |-> d.roots], err |-> "ok"]

DagAddEdge(d, parentID, childID) ==
    IF parentID \notin Keys(d.vertices) THEN [d |-> d, err |-> "NotFound"]
    ELSE IF childID \notin Keys(d.vertices) THEN [d |-> d, err |-> "NotFound"]
    ELSE IF wouldCreateCycle(d.vertices, parentID, childID)
         THEN [d |-> d, err |-> "WouldCreateCycle"]
    ELSE LET vs1 == [d.vertices EXCEPT
                        ![parentID].children = @ \cup {childID}]
             vs2 == [vs1 EXCEPT ![childID].parents = @ \cup {parentID}]
         IN  [d |-> [vertices |-> vs2, roots |-> d.roots \ {childID}],
              err |-> "ok"]

\* RemoveVertex that leaves the id in the children of its parents.
DagRemoveVertex_KeepsEdges(d, id) ==
    IF id \notin Keys(d.vertices) THEN [d |-> d, err |-> "NotFound"]
    ELSE [d |-> [vertices |-> MapDelete(d.vertices, id), roots |-> d.roots \ {id}],
          err |-> "ok"]

\* RemoveVertex that does not detach the id from the parents of its
\* children.
DagRemoveVertex_KeepsParentLinks(d, id) ==
    IF id \notin Keys(d.vertices) THEN [d |-> d, err |-> "NotFound"]
    ELSE LET v == d.vertices[id]
             vs1 == [x \in Keys(d.vertices) |->
                        IF x \in v.parents
                        THEN [d.vertices[x] EXCEPT !.children = @ \ {id}]
                        ELSE d.vertices[x]]
         IN  [d |-> [vertices |-> MapDelete(vs1, id), roots |-> d.roots \ {id}],
              err |-> "ok"]

\* RemoveVertex that does not make roots of the children left without a
\* parent.
DagRemoveVertex_NoPromote(d, id) ==
    IF id \notin Keys(d.vertices) THEN [d |-> d, err |-> "NotFound"]
    ELSE LET v == d.vertices[id]
             vs1 == [x \in Keys(d.vertices) |->
                        IF x \in v.parents
                        THEN [d.vertices[x] EXCEPT !.children = @ \ {id}]
                        ELSE d.vertices[x]]
             vs2 == [x \in Keys(vs1) |->
                        IF x \in v.children
                        THEN [vs1[x] EXCEPT !.parents = @ \ {id}]
                        ELSE vs1[x]]
         IN  [d |-> [vertices |-> MapDelete(vs2, id), roots |-> d.roots \ {id}],
              err |-> "ok"]

DagRemoveVertex(d, id) ==
    IF id \notin Keys(d.vertices) THEN [d |-> d, err |-> "NotFound"]
    ELSE LET v == d.vertices[id]
             \* detach id from its parents' children, then from its
             \* children's parents
             vs1 == [x \in Keys(d.vertices) |->
                        IF x \in v.parents
                        THEN [d.vertices[x] EXCEPT !.children = @ \ {id}]
                        ELSE d.vertices[x]]
             vs2 == [x \in Keys(vs1) |->
                        IF x \in v.children
                        THEN [vs1[x] EXCEPT !.parents = @ \ {id}]
                        ELSE vs1[x]]
             promoted == {c \in v.children : vs2[c].parents = {}}
         IN  [d |-> [vertices |-> MapDelete(vs2, id),
                     roots |-> (d.roots \cup promoted) \ {id}],
              err |-> "ok"]

\* GetVertex: the error it returns
GetVertex(d, id) == IF id \in Keys(d.vertices) THEN "ok" ELSE "NotFound"

GetRoots(d) == d.roots

GetVertices(d) == Keys(d.vertices)

TheDag == [vertices |-> vertices, roots |-> roots]

\* ====================================================== consensus engine
\* Every permutation of a finite set, as sequences (Go map iteration order).
Perms(S) ==
    {s \in [1..Cardinality(S) -> S] : \A i, j \in DOMAIN s : i # j => s[i] # s[j]}

\* The first k entries of every ordering of S (Fisher-Yates, then [:k]).
Arrangements(S, k) ==
    {s \in [1..k -> S] : \A i, j \in DOMAIN s : i # j => s[i] # s[j]}

\* getSamples whose second loop does not leave the vertex itself out.
getSamples_KeepsTarget(d, id, k) ==
    LET allVertices == GetVertices(d)
    IN  IF Cardinality(allVertices) < k THEN {<<>>}
        ELSE IF id \notin Keys(d.vertices) THEN {<<>>}
        ELSE LET parentIDs == d.vertices[id].parents
                 others == {v \in allVertices : v \notin parentIDs}
                 candidates == {p \o o : p \in Perms(parentIDs), o \in Perms(others)}
                 n == Cardinality(parentIDs) + Cardinality(others)
             IN  IF n <= k THEN candidates
                 ELSE Arrangements(parentIDs \cup others, k)

\* getSamples: every list the call can return for the DAG value d.
getSamples(d, id, k) ==
    LET allVertices == GetVertices(d)
    IN  IF Cardinality(allVertices) < k THEN {<<>>}
        ELSE IF id \notin Keys(d.vertices) THEN {<<>>}
        ELSE LET parentIDs == d.vertices[id].parents
                 others == {v \in allVertices : v # id /\ v \notin parentIDs}
                 candidates == {p \o o : p \in Perms(parentIDs), o \in Perms(others)}
                 n == Cardinality(parentIDs) + Cardinality(others)
             IN  IF n <= k THEN candidates
                 ELSE Arrangements(parentIDs \cup others, k)

\* checkParent of checkPreference: starts at the sample, follows Parents,
\* looks for the target; visited ids are not expanded again.  calls lists
\* the vertices the closure was called on, in order.
RECURSIVE checkParent(_, _, _, _)
RECURSIVE checkParentOver(_, _, _, _)
\* checkParent that looks at the sample and its direct parents only.
checkParent_DirectOnly(vs, targetID, v, visited) ==
    [found |-> (v = targetID \/ targetID \in vs[v].parents), visited |-> visited,
     calls |-> <<v>>]

checkParent(vs, targetID, v, visited) ==
    IF v = targetID
    THEN [found |-> TRUE, visited |-> visited, calls |-> <<v>>]
    ELSE LET r == checkParentOver(vs, targetID, vs[v].parents, visited \cup {v})
         IN  [r EXCEPT !.calls = <<v>> \o @]

checkParentOver(vs, targetID, ps, visited) ==
    IF ps = {}
    THEN [found |-> FALSE, visited |-> visited, calls |-> <<>>]
    ELSE LET p == CHOOSE x \in ps : TRUE
             r == IF p \in visited
                  THEN [found |-> FALSE, visited |-> visited, calls |-> <<>>]
                  ELSE checkParent(vs, targetID, p, visited)
         IN  IF r.found THEN r
             ELSE LET q == checkParentOver(vs, targetID, ps \ {p}, r.visited)
                  IN  [q EXCEPT !.calls = r.calls \o @]

\* checkPreference whose random draw never prefers.
checkPreference_NeverPrefers(d, sampleID, targetID) ==
    IF sampleID \notin Keys(d.vertices) THEN {FALSE}
    ELSE IF targetID \notin Keys(d.vertices) THEN {FALSE}
    ELSE IF d.vertices[targetID].finalized THEN {TRUE}
    ELSE IF checkParent(d.vertices, targetID, sampleID, {}).found THEN {TRUE}
    ELSE IF d.vertices[sampleID].preferred THEN {TRUE}
    ELSE {FALSE}

\* checkPreference: the answers the call can give (the last branch draws at
\* random: below 70 of 100 prefers).
checkPreference(d, sampleID, targetID) ==
    IF sampleID \notin Keys(d.vertices) THEN {FALSE}
    ELSE IF targetID \notin Keys(d.vertices) THEN {FALSE}
    ELSE IF d.vertices[targetID].finalized THEN {TRUE}
    ELSE IF checkParent(d.vertices, targetID, sampleID, {}).found THEN {TRUE}
    ELSE IF d.vertices[sampleID].preferred THEN {TRUE}
    ELSE {TRUE, FALSE}

\* Vertex.Data is an interface{}.  The payloads 1..NumData are values of a
\* comparable type (a decoded JSON string or number); ObjectData stands for
\* a decoded JSON object (map[string]interface{}) and ArrayData for a
\* decoded JSON array ([]interface{}), whatever they hold.
ObjectData == NumData + 1
ArrayData == NumData + 2
Payloads == Datas \cup {ObjectData, ArrayData}

\* v1.Data != v2.Data on two interfaces: the dynamic types are compared
\* first; two values of the same map or slice type make the comparison
\* panic, two values of different types are unequal.
comparePanics(v1, v2) == v1.data = v2.data /\ v1.data \in {ObjectData, ArrayData}

areCompatible(v1, v2) == v1.data # v2.data

\* The loop of getConfidenceThreshold reaches a comparison that panics.  A
\* vertex with a map or slice payload is unequal to every vertex of another
\* type, so the loop does not break before it meets one of its own type.
getConfidenceThresholdPanics(d, id) ==
    /\ id \in Keys(d.vertices)
    /\ \E other \in GetVertices(d) :
          id # other /\ comparePanics(d.vertices[id], d.vertices[other])

\* getConfidenceThreshold without the search for a conflicting vertex.
getConfidenceThreshold_NoConflicts(d, p, id) ==
    IF id \notin Keys(d.vertices) THEN p.BetaRogue ELSE p.BetaVirtuous

getConfidenceThreshold(d, p, id) ==
    IF id \notin Keys(d.vertices) THEN p.BetaRogue
    ELSE LET isVirtuous ==
                 ~ \E other \in GetVertices(d) :
                       id # other /\ ~ areCompatible(d.vertices[id], d.vertices[other])
         IN  IF isVirtuous THEN p.BetaVirtuous ELSE p.BetaRogue

\* The comparison that finalizes, with > for >=.
reachedThreshold_Strict(count, threshold) == count > threshold

\* processVertex: a.pending[id] >= threshold
reachedThreshold(count, threshold) == count >= threshold

\* ================================================================== state
\* The threads that take locks: the caller of AddVertex, the goroutine of
\* an API request that reads, the RunConsensus goroutines.
Nobody == <<"none", 0>>
Caller == <<"caller", 0>>
Reader == <<"reader", 0>>
Worker(l) == <<"worker", l>>
Threads == {Caller, Reader} \cup {Worker(l) : l \in Loops}

\* sync.RWMutex with nobody in it: no writer, no readers.
NoLock == [w |-> Nobody, r |-> {}]

\* sync.RWMutex: Lock waits until nobody is in, RLock until no writer is.
CanLock(m) == m.w = Nobody /\ m.r = {}
CanRLock(m) == m.w = Nobody
Lock(m, t) == [m EXCEPT !.w = t]
Unlock(m) == [m EXCEPT !.w = Nobody]
RLock(m, t) == [m EXCEPT !.r = @ \cup {t}]
RUnlock(m, t) == [m EXCEPT !.r = @ \ {t}]
Holds(m, t) == m.w = t \/ t \in m.r

\* Avalanche.mu and DAG.mu after construction.  The steps that take and
\* release a lock within themselves leave locks as it is.
NoLocks == [mu |-> NoLock, dmu |-> NoLock, pmu |-> NoLock]

\* NewPeerService: an empty directory; nothing sent, nothing in flight; the
\* remote node as NewNode makes it.
NoNet == [peers |-> EmptyMap, inbox |-> {}, outbox |-> EmptyMap,
          remote |-> [d |-> NewDAG, pending |-> EmptyMap]]

NoCall == [op |-> "none", a |-> 0, b |-> 0, err |-> "ok"]

NoSnapshot == [vertices |-> EmptyMap, roots |-> {}, pending |-> EmptyMap, finalized |-> {}]

AvIdle ==
    [pc |-> "idle", id |-> 0, data |-> 0, parentIDs |-> <<>>, rest |-> <<>>,
     err |-> "ok", pre |-> NoSnapshot]

LoopNone ==
    [pc |-> "none", stop |-> FALSE, snap |-> {}, id |-> 0, currentCount |-> 0,
     samples |-> 0, preferCount |-> 0]

\* The parameters the engine is constructed with: DefaultParams scaled down,
\* keeping 0 < Alpha <= K and 0 < BetaVirtuous < BetaRogue.
SmallParams == [K |-> 1, Alpha |-> 1, BetaVirtuous |-> 1, BetaRogue |-> 2]

\* NewDAG, NewAvalanche, NewConsensusService
Init ==
    /\ vertices = NewDAG.vertices
    /\ roots = NewDAG.roots
    /\ last = NoCall
    /\ pending = EmptyMap
    /\ finalized = {}
    /\ params = SmallParams
    /\ locks = NoLocks
    /\ net = NoNet
    /\ av = AvIdle
    /\ isRunning = FALSE
    /\ stopChan = 0
    /\ loops = [l \in Loops |-> LoopNone]

\* ------------------------------------------- DAG store, called directly
AddVertex(id, data) ==
    LET r == DagAddVertex(TheDag, id, data)
    IN  /\ vertices' = r.d.vertices
        /\ roots' = r.d.roots
        /\ last' = [op |-> "AddVertex", a |-> id, b |-> data, err |-> r.err]
        /\ UNCHANGED engineVars

AddEdge(parentID, childID) ==
    LET r == DagAddEdge(TheDag, parentID, childID)
    IN  /\ vertices' = r.d.vertices
        /\ roots' = r.d.roots
        /\ last' = [op |-> "AddEdge", a |-> parentID, b |-> childID, err |-> r.err]
        /\ UNCHANGED engineVars

RemoveVertex(id) ==
    LET r == DagRemoveVertex(TheDag, id)
    IN  /\ vertices' = r.d.vertices
        /\ roots' = r.d.roots
        /\ last' = [op |-> "RemoveVertex", a |-> id, b |-> 0, err |-> r.err]
        /\ UNCHANGED engineVars

NextDag ==
    \/ \E id \in DagIds, data \in Datas : AddVertex(id, data)
    \/ \E parentID \in DagIds, childID \in DagIds : AddEdge(parentID, childID)
    \/ \E id \in DagIds : RemoveVertex(id)

SpecDag == Init /\ [][NextDag]_vars

\* ------------------------------------------------- engine: AddVertex
\* a.mu is held by the AddVertex call in progress, from its Lock to its
\* deferred Unlock; every other use of a.mu is taken and released inside
\* one step below.
EngineLockFree == av.pc = "idle" /\ locks.mu.w = Nobody

Snapshot ==
    [vertices |-> vertices, roots |-> roots, pending |-> pending, finalized |-> finalized]

\* A caller may name any id as a parent: the ids of the model and one id
\* that is never inserted.
UnknownId == NumIds + 1
ParentLists == UNION {[1..n -> Ids \cup {UnknownId}] : n \in 0..MaxParents}

\* The loop over parentIDs with its rollback, from the DAG value d that
\* already holds the new vertex.
RECURSIVE linkParents(_, _, _)
linkParents(d, id, parentIDs) ==
    IF parentIDs = <<>> THEN [d |-> d, err |-> "ok"]
    ELSE LET r == DagAddEdge(d, Head(parentIDs), id)
         IN  IF r.err = "ok"
             THEN linkParents(r.d, id, Tail(parentIDs))
             ELSE [d |-> DagRemoveVertex(r.d, id).d, err |-> r.err]

\* AddVertex that installs the id in pending without looking at the error.
EngineAddVertex_Unchecked(d, pend, id, data, parentIDs) ==
    LET r0 == DagAddVertex(d, id, data)
        r == IF r0.err = "ok" THEN linkParents(r0.d, id, parentIDs) ELSE r0
    IN  [d |-> r.d, pending |-> MapPut(pend, id, 0), err |-> r.err]

\* Avalanche.AddVertex as a function of the engine state it starts in.
EngineAddVertex(d, pend, id, data, parentIDs) ==
    LET r0 == DagAddVertex(d, id, data)
        r == IF r0.err = "ok" THEN linkParents(r0.d, id, parentIDs) ELSE r0
    IN  [d |-> r.d,
         pending |-> IF r.err = "ok" THEN MapPut(pend, id, 0) ELSE pend,
         err |-> r.err]

\* Avalanche.AddVertex, from Lock to the deferred Unlock.  A call that
\* leaves every variable as it was is a stuttering step, which every
\* specification allows; only the calls that change something are
\* enumerated.
AvCall(id, data, parentIDs) ==
    /\ EngineLockFree
    /\ LET r == EngineAddVertex(TheDag, pending, id, data, parentIDs)
       IN  /\ r.d # TheDag \/ r.pending # pending
           /\ vertices' = r.d.vertices
           /\ roots' = r.d.roots
           /\ pending' = r.pending
    /\ UNCHANGED <<last, finalized, params, locks, net, av, isRunning, stopChan, loops>>

\* The same call, one DAG call at a time.

\* Lock, then a.dag.AddVertex(id, data)
AvBegin(id, data, parentIDs) ==
    /\ EngineLockFree
    /\ LET r == DagAddVertex(TheDag, id, data)
       IN  /\ vertices' = r.d.vertices
           /\ roots' = r.d.roots
           /\ av' = [pc |-> IF r.err = "ok" THEN "edges" ELSE "ret",
                     id |-> id, data |-> data, parentIDs |-> parentIDs,
                     rest |-> IF r.err = "ok" THEN parentIDs ELSE <<>>,
                     err |-> r.err, pre |-> Snapshot]
    /\ UNCHANGED <<last, pending, finalized, params, locks, net, isRunning, stopChan, loops>>

\* one iteration of the loop over parentIDs: a.dag.AddEdge(pid, id)
AvEdge ==
    /\ av.pc = "edges"
    /\ av.rest # <<>>
    /\ LET r == DagAddEdge(TheDag, Head(av.rest), av.id)
       IN  /\ vertices' = r.d.vertices
           /\ roots' = r.d.roots
           /\ av' = IF r.err = "ok"
                    THEN [av EXCEPT !.rest = Tail(@)]
                    ELSE [av EXCEPT !.pc = "rollback", !.err = r.err]
    /\ UNCHANGED <<last, pending, finalized, params, locks, net, isRunning, stopChan, loops>>

\* the rollback: a.dag.RemoveVertex(id), its result ignored
AvRollback ==
    /\ av.pc = "rollback"
    /\ LET r == DagRemoveVertex(TheDag, av.id)
       IN  /\ vertices' = r.d.vertices
           /\ roots' = r.d.roots
    /\ av' = [av EXCEPT !.pc = "ret"]
    /\ UNCHANGED <<last, pending, finalized, params, locks, net, isRunning, stopChan, loops>>

\* a.pending[id] = 0
AvInstall ==
    /\ av.pc = "edges"
    /\ av.rest = <<>>
    /\ pending' = MapPut(pending, av.id, 0)
    /\ av' = [av EXCEPT !.pc = "ret"]
    /\ UNCHANGED <<vertices, roots, last, finalized, params, locks, net, isRunning, stopChan, loops>>

\* the return, and the deferred Unlock
AvReturn ==
    /\ av.pc = "ret"
    /\ av' = AvIdle
    /\ UNCHANGED <<vertices, roots, last, pending, finalized, params, locks, net, isRunning, stopChan, loops>>

\* ------------------------------------------- service: Start/StopConsensus
FreeSlots == {l \in Loops : loops[l].pc = "none"}

StartConsensus ==
    /\ ~ isRunning
    /\ FreeSlots # {}
    /\ LET l == CHOOSE x \in FreeSlots : \A y \in FreeSlots : x <= y
       IN  /\ stopChan' = l
           /\ loops' = [loops EXCEPT ![l] = [LoopNone EXCEPT !.pc = "select"]]
    /\ isRunning' = TRUE
    /\ UNCHANGED <<vertices, roots, last, pending, finalized, params, locks, net, av>>

StopConsensus ==
    /\ isRunning
    /\ loops' = [loops EXCEPT ![stopChan].stop = TRUE]
    /\ isRunning' = FALSE
    /\ UNCHANGED <<vertices, roots, last, pending, finalized, params, locks, net, av, stopChan>>

\* ------------------------------------------- engine: the worker loop
\* The select that takes the default branch whatever the stop channel says.
LoopSelect_IgnoresStop(l) ==
    /\ loops[l].pc = "select"
    /\ loops' = [loops EXCEPT ![l] = [@ EXCEPT !.pc = "snapshot"]]
    /\ UNCHANGED <<vertices, roots, last, pending, finalized, params, locks, net, av, isRunning, stopChan>>

\* RunConsensus: select on the stop channel, default branch runs a round
LoopSelect(l) ==
    /\ loops[l].pc = "select"
    /\ loops' = [loops EXCEPT ![l] =
                    IF @.stop THEN LoopNone ELSE [@ EXCEPT !.pc = "snapshot"]]
    /\ UNCHANGED <<vertices, roots, last, pending, finalized, params, locks, net, av, isRunning, stopChan>>

\* consensusRound: copy the keys of pending under the lock
LoopSnapshot(l) ==
    /\ loops[l].pc = "snapshot"
    /\ EngineLockFree
    /\ locks.mu.r = {}
    /\ loops' = [loops EXCEPT ![l] = [@ EXCEPT !.pc = "iter", !.snap = Keys(pending)]]
    /\ UNCHANGED <<vertices, roots, last, pending, finalized, params, locks, net, av, isRunning, stopChan>>

\* consensusRound is over: Sleep, back to the select
LoopEndRound(l) ==
    /\ loops[l].pc = "iter"
    /\ loops[l].snap = {}
    /\ loops' = [loops EXCEPT ![l] = [@ EXCEPT !.pc = "select"]]
    /\ UNCHANGED <<vertices, roots, last, pending, finalized, params, locks, net, av, isRunning, stopChan>>

\* The loop of consensusRound ranging over pending as it is now, not over
\* the copy.
LoopProcess_ReadsPending(l) ==
    /\ loops[l].pc = "iter"
    /\ EngineLockFree
    /\ \E id \in loops[l].snap \cup Keys(pending) :
          loops' = [loops EXCEPT ![l] =
              IF id \in finalized
              THEN [@ EXCEPT !.snap = @ \ {id}]
              ELSE [@ EXCEPT !.snap = @ \ {id}, !.pc = "sample", !.id = id,
                             !.currentCount =
                                 IF id \in Keys(pending) THEN pending[id] ELSE 0]]
    /\ UNCHANGED <<vertices, roots, last, pending, finalized, params, locks, net, av, isRunning, stopChan>>

\* processVertex, the first RLock section: the next id of the copy
LoopProcess(l) ==
    /\ loops[l].pc = "iter"
    /\ EngineLockFree
    /\ \E id \in loops[l].snap :
          loops' = [loops EXCEPT ![l] =
              IF id \in finalized
              THEN [@ EXCEPT !.snap = @ \ {id}]
              ELSE [@ EXCEPT !.snap = @ \ {id}, !.pc = "sample", !.id = id,
                             !.currentCount =
                                 IF id \in Keys(pending) THEN pending[id] ELSE 0]]
    /\ UNCHANGED <<vertices, roots, last, pending, finalized, params, locks, net, av, isRunning, stopChan>>

\* The preferCount values the loop over the samples can end with: one
\* checkPreference call per sample.
RECURSIVE preferCounts(_, _, _)
preferCounts(d, samples, id) ==
    IF samples = <<>> THEN {0}
    ELSE {(IF prefers THEN 1 ELSE 0) + n :
             prefers \in checkPreference(d, Head(samples), id),
             n \in preferCounts(d, Tail(samples), id)}

\* processVertex: getSamples, the return when it gives nothing, and the
\* checkPreference calls.  The calls only read, and the answers a call can
\* give never grow with time (a target once finalized stays finalized, a
\* sample's ancestors are fixed when it is inserted), so asking every
\* sample at the sampling instant loses no outcome.
LoopSample(l) ==
    /\ loops[l].pc = "sample"
    /\ EngineLockFree
    /\ \E s \in getSamples(TheDag, loops[l].id, params.K) :
          IF Len(s) = 0
          THEN loops' = [loops EXCEPT ![l] =
                   [@ EXCEPT !.pc = "iter", !.id = 0, !.currentCount = 0]]
          ELSE \E n \in preferCounts(TheDag, s, loops[l].id) :
                   loops' = [loops EXCEPT ![l] =
                       [@ EXCEPT !.pc = "update", !.samples = Len(s), !.preferCount = n]]
    /\ UNCHANGED <<vertices, roots, last, pending, finalized, params, locks, net, av, isRunning, stopChan>>

\* processVertex: the update under a.mu.Lock.  A panic in
\* getConfidenceThreshold, after the counter was written, is recovered
\* nowhere: the goroutine is at "panic" and the process is over.
LoopUpdate(l) ==
    /\ loops[l].pc = "update"
    /\ EngineLockFree
    /\ LET id == loops[l].id
           counted == MapPut(pending, id, loops[l].currentCount + 1)
           threshold == getConfidenceThreshold(TheDag, params, id)
       IN  IF loops[l].preferCount >= params.Alpha
           THEN IF getConfidenceThresholdPanics(TheDag, id)
                THEN /\ pending' = counted
                     /\ UNCHANGED <<finalized, vertices>>
                ELSE IF reachedThreshold(counted[id], threshold)
                THEN /\ finalized' = finalized \cup {id}
                     /\ pending' = MapDelete(counted, id)
                     /\ vertices' = IF id \in Keys(vertices)
                                    THEN [vertices EXCEPT ![id].finalized = TRUE]
                                    ELSE vertices
                ELSE /\ pending' = counted
                     /\ UNCHANGED <<finalized, vertices>>
           ELSE /\ pending' = MapPut(pending, id, 0)
                /\ UNCHANGED <<finalized, vertices>>
    /\ loops' = [loops EXCEPT ![l] =
                    IF /\ loops[l].preferCount >= params.Alpha
                       /\ getConfidenceThresholdPanics(TheDag, loops[l].id)
                    THEN [@ EXCEPT !.pc = "panic"]
                    ELSE [@ EXCEPT !.pc = "iter", !.id = 0, !.currentCount = 0,
                                   !.samples = 0, !.preferCount = 0]]
    /\ UNCHANGED <<roots, last, params, locks, net, av, isRunning, stopChan>>

Next ==
    \/ \E id \in Ids, data \in Datas, parentIDs \in ParentLists : AvCall(id, data, parentIDs)
    \/ StartConsensus
    \/ StopConsensus
    \/ \E l \in Loops : LoopSelect(l)
    \/ \E l \in Loops : LoopSnapshot(l)
    \/ \E l \in Loops : LoopEndRound(l)
    \/ \E l \in Loops : LoopProcess(l)
    \/ \E l \in Loops : LoopSample(l)
    \/ \E l \in Loops : LoopUpdate(l)

Spec == Init /\ [][Next]_vars

\* One AddVertex call at a time in its steps, and the worker loop of a
\* service that is started and left running.
NextCall ==
    \/ \E id \in Ids, data \in Datas, parentIDs \in ParentLists : AvBegin(id, data, parentIDs)
    \/ AvEdge
    \/ AvRollback
    \/ AvInstall
    \/ AvReturn
    \/ StartConsensus
    \/ \E l \in Loops : LoopSelect(l)
    \/ \E l \in Loops : LoopSnapshot(l)
    \/ \E l \in Loops : LoopEndRound(l)
    \/ \E l \in Loops : LoopProcess(l)
    \/ \E l \in Loops : LoopSample(l)
    \/ \E l \in Loops : LoopUpdate(l)

SpecCall == Init /\ [][NextCall]_vars

\* ------------------------------------------- engine: the sampler, called
\* An engine constructed with each sample size up to MaxK.
ParamChoices == {[SmallParams EXCEPT !.K = k] : k \in 1..MaxK}

InitParams ==
    /\ vertices = NewDAG.vertices
    /\ roots = NewDAG.roots
    /\ last = NoCall
    /\ pending = EmptyMap
    /\ finalized = {}
    /\ params \in ParamChoices
    /\ locks = NoLocks
    /\ net = NoNet
    /\ av = AvIdle
    /\ isRunning = FALSE
    /\ stopChan = 0
    /\ loops = [l \in Loops |-> LoopNone]

SampleParentLists == UNION {[1..n -> DagIds] : n \in 0..MaxParents}

\* getSamples(id, a.params.K) as processVertex calls it, for an id of
\* pending; the list it returns is kept in last.
Sample(id) ==
    /\ EngineLockFree
    /\ id \in Keys(pending)
    /\ \E s \in getSamples(TheDag, id, params.K) :
          last' = [op |-> "getSamples", id |-> id, k |-> params.K, samples |-> s]
    /\ UNCHANGED <<vertices, roots, engineVars>>

NextSample ==
    \/ \E id \in DagIds, data \in Datas, parentIDs \in SampleParentLists :
          AvCall(id, data, parentIDs)
    \/ \E id \in DagIds : Sample(id)

SpecSample == InitParams /\ [][NextSample]_vars

\* An engine of any of the sample sizes, its service started and left
\* running: AddVertex callers beside the one worker loop.
NextRound ==
    \/ \E id \in Ids, data \in Datas, parentIDs \in ParentLists : AvCall(id, data, parentIDs)
    \/ StartConsensus
    \/ \E l \in Loops : LoopSelect(l)
    \/ \E l \in Loops : LoopSnapshot(l)
    \/ \E l \in Loops : LoopEndRound(l)
    \/ \E l \in Loops : LoopProcess(l)
    \/ \E l \in Loops : LoopSample(l)
    \/ \E l \in Loops : LoopUpdate(l)

SpecRound == InitParams /\ [][NextRound]_vars

\* ------------------------------------------- service: the calls, returned
\* StartConsensus and StopConsensus from Lock to the deferred Unlock of the
\* service, with the error each returns kept in last.

\* The channel in s.stopChan has been closed: its worker has seen the close
\* or has still to see it.  (The channel made by NewConsensusService is
\* never handed to a worker.)
ChanClosed ==
    stopChan # 0 /\ (loops[stopChan].stop \/ loops[stopChan].pc = "none")

StartConsensusCall ==
    IF isRunning
    THEN /\ last' = [op |-> "StartConsensus", a |-> 0, b |-> 0, err |-> "AlreadyRunning"]
         /\ UNCHANGED <<vertices, roots, engineVars>>
    ELSE /\ FreeSlots # {}
         /\ LET l == CHOOSE x \in FreeSlots : \A y \in FreeSlots : x <= y
            IN  /\ stopChan' = l
                /\ loops' = [loops EXCEPT ![l] = [LoopNone EXCEPT !.pc = "select"]]
         /\ isRunning' = TRUE
         /\ last' = [op |-> "StartConsensus", a |-> 0, b |-> 0, err |-> "ok"]
         /\ UNCHANGED <<vertices, roots, pending, finalized, params, locks, net, av>>

\* StopConsensus that leaves isRunning set.
StopConsensusCall_KeepsRunning ==
    IF ~ isRunning
    THEN /\ last' = [op |-> "StopConsensus", a |-> 0, b |-> 0, err |-> "NotRunning"]
         /\ UNCHANGED <<vertices, roots, engineVars>>
    ELSE IF ChanClosed
    THEN /\ last' = [op |-> "StopConsensus", a |-> 0, b |-> 0, err |-> "panic"]
         /\ UNCHANGED <<vertices, roots, engineVars>>
    ELSE /\ loops' = [loops EXCEPT ![stopChan].stop = TRUE]
         /\ last' = [op |-> "StopConsensus", a |-> 0, b |-> 0, err |-> "ok"]
         /\ UNCHANGED <<vertices, roots, pending, finalized, params, locks, net, av, stopChan, isRunning>>

\* close of a closed channel panics
StopConsensusCall ==
    IF ~ isRunning
    THEN /\ last' = [op |-> "StopConsensus", a |-> 0, b |-> 0, err |-> "NotRunning"]
         /\ UNCHANGED <<vertices, roots, engineVars>>
    ELSE IF ChanClosed
    THEN /\ last' = [op |-> "StopConsensus", a |-> 0, b |-> 0, err |-> "panic"]
         /\ UNCHANGED <<vertices, roots, engineVars>>
    ELSE /\ loops' = [loops EXCEPT ![stopChan].stop = TRUE]
         /\ isRunning' = FALSE
         /\ last' = [op |-> "StopConsensus", a |-> 0, b |-> 0, err |-> "ok"]
         /\ UNCHANGED <<vertices, roots, pending, finalized, params, locks, net, av, stopChan>>

\* The service's callers beside the AddVertex callers and the workers.
NextService ==
    \/ \E id \in Ids, data \in Datas, parentIDs \in ParentLists : AvCall(id, data, parentIDs)
    \/ StartConsensusCall
    \/ StopConsensusCall
    \/ \E l \in Loops : LoopSelect(l)
    \/ \E l \in Loops : LoopSnapshot(l)
    \/ \E l \in Loops : LoopEndRound(l)
    \/ \E l \in Loops : LoopProcess(l)
    \/ \E l \in Loops : LoopSample(l)
    \/ \E l \in Loops : LoopUpdate(l)

SpecService == Init /\ [][NextService]_vars

\* Every worker goroutine keeps being scheduled, and the engine lock, held
\* only for the length of a call, is granted to a worker that waits for it.
LoopFairness ==
    \A l \in Loops :
        /\ WF_vars(LoopSelect(l))
        /\ WF_vars(LoopSnapshot(l))
        /\ WF_vars(LoopEndRound(l))
        /\ WF_vars(LoopProcess(l))
        /\ WF_vars(LoopSample(l))
        /\ WF_vars(LoopUpdate(l))

SpecFair == Init /\ [][Next]_vars /\ LoopFairness

\* ------------------------------------------- service: ProposeVertex
\* One caller proposing vertex after vertex; last holds its call: pc is
\* "broadcast" after a successful AddVertex and "ret" once the call has
\* returned err, bcast is what BroadcastVertex returned, sends the
\* transmission goroutines it started.

ProposeIdle == IF last.op = "ProposeVertex" THEN last.pc = "ret" ELSE TRUE

SendsInFlight ==
    IF last.op = "ProposeVertex"
    THEN {p \in Keys(last.sends) : last.sends[p] = "inflight"}
    ELSE {}

\* s.avalanche.AddVertex(id, data, parentIDs), and the return of its error
ProposeAddVertex(id, data, parentIDs) ==
    /\ EngineLockFree
    /\ ProposeIdle
    /\ SendsInFlight = {}
    /\ LET r == EngineAddVertex(TheDag, pending, id, data, parentIDs)
       IN  /\ vertices' = r.d.vertices
           /\ roots' = r.d.roots
           /\ pending' = r.pending
           /\ last' = [op |-> "ProposeVertex",
                       pc |-> IF r.err = "ok" THEN "broadcast" ELSE "ret",
                       id |-> id, err |-> r.err, bcast |-> "none", sends |-> EmptyMap]
    /\ UNCHANGED <<finalized, params, locks, net, av, isRunning, stopChan, loops>>

\* ProposeVertex that undoes the insertion when the broadcast fails.
ProposeBroadcast_RollsBack ==
    /\ ~ ProposeIdle
    /\ EngineLockFree
    /\ \/ /\ last' = [last EXCEPT !.pc = "ret"]
          /\ UNCHANGED <<vertices, roots, pending>>
       \/ /\ last' = [last EXCEPT !.pc = "ret", !.bcast = "MarshalError", !.err = "MarshalError"]
          /\ LET r == DagRemoveVertex(TheDag, last.id)
             IN  vertices' = r.d.vertices /\ roots' = r.d.roots
          /\ pending' = MapDelete(pending, last.id)
       \/ /\ \E ps \in SUBSET Peers :
                last' = [last EXCEPT !.pc = "ret", !.bcast = "ok",
                                     !.sends = [p \in ps |-> "inflight"]]
          /\ UNCHANGED <<vertices, roots, pending>>
    /\ UNCHANGED <<finalized, params, locks, net, av, isRunning, stopChan, loops>>

\* The rest of ProposeVertex: no peer service; or BroadcastVertex, which
\* returns the error of json.Marshal, or starts one transmission per peer
\* of the directory and returns nil.  The error is printed and the vertex
\* returned.
ProposeBroadcast ==
    /\ ~ ProposeIdle
    /\ \/ last' = [last EXCEPT !.pc = "ret"]
       \/ last' = [last EXCEPT !.pc = "ret", !.bcast = "MarshalError"]
       \/ \E ps \in SUBSET Peers :
             last' = [last EXCEPT !.pc = "ret", !.bcast = "ok",
                                  !.sends = [p \in ps |-> "inflight"]]
    /\ UNCHANGED <<vertices, roots, engineVars>>

\* a transmission goroutine: p.client.Post returns, with an error or not
SendDone(p) ==
    /\ p \in SendsInFlight
    /\ \E outcome \in {"sent", "failed"} :
          last' = [last EXCEPT !.sends = MapPut(@, p, outcome)]
    /\ UNCHANGED <<vertices, roots, engineVars>>

NextPropose ==
    \/ \E id \in Ids, data \in Datas, parentIDs \in ParentLists :
          ProposeAddVertex(id, data, parentIDs)
    \/ ProposeBroadcast
    \/ \E p \in Peers : SendDone(p)
    \/ StartConsensus
    \/ \E l \in Loops : LoopSelect(l)
    \/ \E l \in Loops : LoopSnapshot(l)
    \/ \E l \in Loops : LoopEndRound(l)
    \/ \E l \in Loops : LoopProcess(l)
    \/ \E l \in Loops : LoopSample(l)
    \/ \E l \in Loops : LoopUpdate(l)

SpecPropose == Init /\ [][NextPropose]_vars

\* ------------------------------------------- scenario S1
\* An engine with K = 3, Alpha = 2, BetaVirtuous = 5 constructed over a DAG
\* that already holds the vertices 1..NumDagIds, without edges; then v0 is
\* submitted without parents and with data no other vertex has, and the
\* service is started.
S1Params == [K |-> 3, Alpha |-> 2, BetaVirtuous |-> 5, BetaRogue |-> 6]

S1Target == NumDagIds + 1
S1Data == NumData + 1

InitS1 ==
    /\ vertices \in [DagIds -> {NewVertex(data) : data \in Datas}]
    /\ roots = DagIds
    /\ last = NoCall
    /\ pending = EmptyMap
    /\ finalized = {}
    /\ params = S1Params
    /\ locks = NoLocks
    /\ net = NoNet
    /\ av = AvIdle
    /\ isRunning = FALSE
    /\ stopChan = 0
    /\ loops = [l \in Loops |-> LoopNone]

NextS1 ==
    \/ AvCall(S1Target, S1Data, <<>>)
    \/ StartConsensus
    \/ \E l \in Loops : LoopSelect(l)
    \/ \E l \in Loops : LoopSnapshot(l)
    \/ \E l \in Loops : LoopEndRound(l)
    \/ \E l \in Loops : LoopProcess(l)
    \/ \E l \in Loops : LoopSample(l)
    \/ \E l \in Loops : LoopUpdate(l)

\* The sampling of a worker that read the count c ends with Alpha
\* approvals or more.
LoopSampleApproved(l, c) ==
    /\ LoopSample(l)
    /\ loops[l].currentCount = c
    /\ loops'[l].pc = "update"
    /\ loops'[l].preferCount >= params.Alpha

\* The draws of checkPreference are independent, each preferring with
\* probability 70/100: an outcome of the sampling that is possible again
\* and again, at a given count, does occur.
DrawFairness ==
    \A l \in Loops : \A c \in 0..(S1Params.BetaVirtuous - 1) :
        SF_vars(LoopSampleApproved(l, c))

SpecS1 == InitS1 /\ [][NextS1]_vars /\ LoopFairness /\ DrawFairness

\* ------------------------------------------- engine: the read queries
\* A reader beside an AddVertex call in its steps; last holds what the
\* reader's latest query returned.  GetVertex and GetAllVertices go to the
\* DAG without taking the engine lock; IsPending and IsFinalized take it.
ObserveGetVertex(id) ==
    /\ last' = [op |-> "GetVertex", a |-> id, b |-> 0, err |-> GetVertex(TheDag, id)]
    /\ UNCHANGED <<vertices, roots, engineVars>>

ObserveGetAllVertices ==
    /\ last' = [op |-> "GetAllVertices", a |-> 0, b |-> 0, err |-> "ok",
                ids |-> GetVertices(TheDag)]
    /\ UNCHANGED <<vertices, roots, engineVars>>

ObserveIsPending(id) ==
    /\ EngineLockFree
    /\ last' = [op |-> "IsPending", a |-> id, b |-> 0,
                err |-> IF id \in Keys(pending) THEN "true" ELSE "false"]
    /\ UNCHANGED <<vertices, roots, engineVars>>

ObserveIsFinalized(id) ==
    /\ EngineLockFree
    /\ last' = [op |-> "IsFinalized", a |-> id, b |-> 0,
                err |-> IF id \in finalized THEN "true" ELSE "false"]
    /\ UNCHANGED <<vertices, roots, engineVars>>

NextObserve ==
    \/ \E id \in Ids, data \in Datas, parentIDs \in ParentLists : AvBegin(id, data, parentIDs)
    \/ AvEdge
    \/ AvRollback
    \/ AvInstall
    \/ AvReturn
    \/ StartConsensus
    \/ \E l \in Loops : LoopSelect(l)
    \/ \E l \in Loops : LoopSnapshot(l)
    \/ \E l \in Loops : LoopEndRound(l)
    \/ \E l \in Loops : LoopProcess(l)
    \/ \E l \in Loops : LoopSample(l)
    \/ \E l \in Loops : LoopUpdate(l)
    \/ \E id \in Ids : ObserveGetVertex(id)
    \/ ObserveGetAllVertices
    \/ \E id \in Ids : ObserveIsPending(id)
    \/ \E id \in Ids : ObserveIsFinalized(id)

SpecObserve == Init /\ [][NextObserve]_vars

\* ------------------------------------------- submitting vertices
\* The id a request carries when it names none (the empty string).
EmptyId == 0

SubmitIds == Ids \cup {EmptyId}

\* The engine's parameters with the cap on outstanding vertices, scaled
\* down so that the callers' ids can exceed it.
CapParams ==
    [K |-> 1, Alpha |-> 1, BetaVirtuous |-> 1, BetaRogue |-> 2,
     MaxOutstanding |-> NumIds - 1]

InitSubmit ==
    /\ vertices = NewDAG.vertices
    /\ roots = NewDAG.roots
    /\ last = NoCall
    /\ pending = EmptyMap
    /\ finalized = {}
    /\ params = CapParams
    /\ locks = NoLocks
    /\ net = NoNet
    /\ av = AvIdle
    /\ isRunning = FALSE
    /\ stopChan = 0
    /\ loops = [l \in Loops |-> LoopNone]

\* VertexModel.ValidateVertex: returns nil
ValidateVertex(id, data, parentIDs) == "ok"

\* HandleCreateVertex: ValidateVertex, then ProposeVertex, whose AddVertex
\* decides the result
SubmitVertex(id, data, parentIDs) ==
    /\ EngineLockFree
    /\ LET e == ValidateVertex(id, data, parentIDs)
           r == IF e = "ok"
                THEN EngineAddVertex(TheDag, pending, id, data, parentIDs)
                ELSE [d |-> TheDag, pending |-> pending, err |-> e]
       IN  /\ vertices' = r.d.vertices
           /\ roots' = r.d.roots
           /\ pending' = r.pending
           /\ last' = [op |-> "CreateVertex", a |-> id, b |-> data, err |-> r.err]
    /\ UNCHANGED <<finalized, params, locks, net, av, isRunning, stopChan, loops>>

\* ConsensusService.ReceiveVertex: the engine's AddVertex
ReceiveVertex(id, data, parentIDs) ==
    /\ EngineLockFree
    /\ LET r == EngineAddVertex(TheDag, pending, id, data, parentIDs)
       IN  /\ vertices' = r.d.vertices
           /\ roots' = r.d.roots
           /\ pending' = r.pending
           /\ last' = [op |-> "ReceiveVertex", a |-> id, b |-> data, err |-> r.err]
    /\ UNCHANGED <<finalized, params, locks, net, av, isRunning, stopChan, loops>>

NextSubmit ==
    \/ \E id \in SubmitIds, data \in Datas, parentIDs \in ParentLists :
          SubmitVertex(id, data, parentIDs)
    \/ \E id \in SubmitIds, data \in Datas, parentIDs \in ParentLists :
          ReceiveVertex(id, data, parentIDs)

SpecSubmit == InitSubmit /\ [][NextSubmit]_vars

\* ------------------------------------------- checkPreference, called
\* The DAG values checkPreference is asked about: the vertices 1..NumDagIds
\* with any acyclic parents relation (each is reached by AddVertex calls
\* that list ancestors first), any of them flagged finalized, any of them
\* flagged preferred (an exported field that callers of the package set).
BuildVertices(pf, fin, pref) ==
    [x \in DagIds |->
        [data |-> 1, parents |-> pf[x], children |-> {c \in DagIds : x \in pf[c]},
         preferred |-> x \in pref, finalized |-> x \in fin]]

RECURSIVE ReachUp(_, _)
ReachUp(pf, S) ==
    LET T == S \cup UNION {pf[x] : x \in S}
    IN  IF T = S THEN S ELSE ReachUp(pf, T)

AcyclicParents == {pf \in [DagIds -> SUBSET DagIds] : \A x \in DagIds : x \notin ReachUp(pf, pf[x])}

AbsentId == NumDagIds + 1
QueryIds == DagIds \cup {AbsentId}

InitPrefers ==
    /\ \E pf \in AcyclicParents, fin \in SUBSET DagIds, pref \in SUBSET DagIds :
          /\ vertices = BuildVertices(pf, fin, pref)
          /\ roots = {x \in DagIds : pf[x] = {}}
    /\ last = NoCall
    /\ pending = EmptyMap
    /\ finalized = {}
    /\ params = SmallParams
    /\ locks = NoLocks
    /\ net = NoNet
    /\ av = AvIdle
    /\ isRunning = FALSE
    /\ stopChan = 0
    /\ loops = [l \in Loops |-> LoopNone]

\* checkPreference(sampleID, targetID) for a sample other than the target
\* (getSamples leaves the target out); its answer is kept in last
Prefers(sampleID, targetID) ==
    /\ sampleID # targetID
    /\ \E r \in checkPreference(TheDag, sampleID, targetID) :
          last' = [op |-> "checkPreference", a |-> sampleID, b |-> targetID,
                   err |-> IF r THEN "true" ELSE "false"]
    /\ UNCHANGED <<vertices, roots, engineVars>>

NextPrefers == \E sampleID \in QueryIds, targetID \in QueryIds : Prefers(sampleID, targetID)

SpecPrefers == InitPrefers /\ [][NextPrefers]_vars

\* ------------------------------------------- the two locks, step by step
\* AddVertex, processVertex and a GetVertex request of the API, one lock
\* operation at a time.
\* AddVertex: a.mu.Lock()
AvLock(id, data, parentIDs) ==
    /\ av.pc = "idle"
    /\ CanLock(locks.mu)
    /\ locks' = [locks EXCEPT !.mu = Lock(@, Caller)]
    /\ av' = [pc |-> "AddVertex", id |-> id, data |-> data, parentIDs |-> parentIDs,
              rest |-> parentIDs, err |-> "ok", pre |-> Snapshot]
    /\ UNCHANGED <<vertices, roots, last, pending, finalized, params, net, isRunning, stopChan, loops>>

\* AddVertex: d.mu.Lock() at the top of dag.AddVertex, dag.AddEdge (one per
\* parent id left) and dag.RemoveVertex
AvDagLock ==
    /\ av.pc \in {"AddVertex", "AddEdge", "RemoveVertex"}
    /\ av.pc = "AddEdge" => av.rest # <<>>
    /\ ~ Holds(locks.dmu, Caller)
    /\ CanLock(locks.dmu)
    /\ locks' = [locks EXCEPT !.dmu = Lock(@, Caller)]
    /\ UNCHANGED <<vertices, roots, last, pending, finalized, params, net, av, isRunning, stopChan, loops>>

\* AddVertex: the body of the DAG call and its deferred d.mu.Unlock()
AvDagCall ==
    /\ locks.dmu.w = Caller
    /\ LET r == IF av.pc = "AddVertex" THEN DagAddVertex(TheDag, av.id, av.data)
                ELSE IF av.pc = "AddEdge" THEN DagAddEdge(TheDag, Head(av.rest), av.id)
                ELSE DagRemoveVertex(TheDag, av.id)
       IN  /\ vertices' = r.d.vertices
           /\ roots' = r.d.roots
           /\ av' = IF av.pc = "AddVertex"
                    THEN [av EXCEPT !.pc = IF r.err = "ok" THEN "AddEdge" ELSE "Unlock",
                                    !.err = r.err]
                    ELSE IF av.pc = "AddEdge"
                    THEN IF r.err = "ok"
                         THEN [av EXCEPT !.rest = Tail(@)]
                         ELSE [av EXCEPT !.pc = "RemoveVertex", !.err = r.err]
                    ELSE [av EXCEPT !.pc = "Unlock"]
    /\ locks' = [locks EXCEPT !.dmu = Unlock(@)]
    /\ UNCHANGED <<last, pending, finalized, params, net, isRunning, stopChan, loops>>

\* AddVertex: a.pending[id] = 0
AvPending ==
    /\ av.pc = "AddEdge"
    /\ av.rest = <<>>
    /\ ~ Holds(locks.dmu, Caller)
    /\ pending' = MapPut(pending, av.id, 0)
    /\ av' = [av EXCEPT !.pc = "Unlock"]
    /\ UNCHANGED <<vertices, roots, last, finalized, params, locks, net, isRunning, stopChan, loops>>

\* AddVertex: the return and the deferred a.mu.Unlock()
AvUnlock ==
    /\ av.pc = "Unlock"
    /\ locks' = [locks EXCEPT !.mu = Unlock(@)]
    /\ av' = AvIdle
    /\ UNCHANGED <<vertices, roots, last, pending, finalized, params, net, isRunning, stopChan, loops>>

\* The worker inside a section of processVertex: where it is, the DAG read
\* calls the section has left, the samples it has still to ask.
InSection(w, pc, calls, queue) ==
    [pc |-> pc, stop |-> w.stop, snap |-> w.snap, id |-> w.id,
     currentCount |-> w.currentCount, samples |-> w.samples,
     preferCount |-> w.preferCount, calls |-> calls, queue |-> queue]

\* The worker back in the loop of consensusRound.
BackToRound(w) == [LoopNone EXCEPT !.pc = "iter", !.stop = w.stop, !.snap = w.snap]

SectionPcs == {"getSamples", "checkPreference", "getConfidenceThreshold", "GetVertex"}

\* getSamples: a.mu.RLock(); it calls dag.GetVertices, and dag.GetVertex
\* unless the DAG has fewer than k vertices
PvSamplesLock(l) ==
    /\ loops[l].pc = "sample"
    /\ CanRLock(locks.mu)
    /\ locks' = [locks EXCEPT !.mu = RLock(@, Worker(l))]
    /\ loops' = [loops EXCEPT ![l] =
                    InSection(@, "getSamples",
                              IF Cardinality(GetVertices(TheDag)) < params.K THEN 1 ELSE 2,
                              <<>>)]
    /\ UNCHANGED <<vertices, roots, last, pending, finalized, params, net, av, isRunning, stopChan>>

\* d.mu.RLock() at the top of dag.GetVertex and dag.GetVertices
PvDagRLock(l) ==
    /\ loops[l].pc \in SectionPcs
    /\ loops[l].calls > 0
    /\ ~ Holds(locks.dmu, Worker(l))
    /\ CanRLock(locks.dmu)
    /\ locks' = [locks EXCEPT !.dmu = RLock(@, Worker(l))]
    /\ UNCHANGED <<vertices, roots, last, pending, finalized, params, net, av, isRunning, stopChan, loops>>

\* the deferred d.mu.RUnlock() of dag.GetVertex and dag.GetVertices
PvDagRUnlock(l) ==
    /\ loops[l].pc \in SectionPcs
    /\ Holds(locks.dmu, Worker(l))
    /\ locks' = [locks EXCEPT !.dmu = RUnlock(@, Worker(l))]
    /\ loops' = [loops EXCEPT ![l] = [@ EXCEPT !.calls = @ - 1]]
    /\ UNCHANGED <<vertices, roots, last, pending, finalized, params, net, av, isRunning, stopChan>>

\* getSamples returns, with its deferred a.mu.RUnlock(); processVertex
\* returns when there are no samples
PvSamplesDone(l) ==
    /\ loops[l].pc = "getSamples"
    /\ loops[l].calls = 0
    /\ locks' = [locks EXCEPT !.mu = RUnlock(@, Worker(l))]
    /\ \E s \in getSamples(TheDag, loops[l].id, params.K) :
          loops' = [loops EXCEPT ![l] =
              IF Len(s) = 0 THEN BackToRound(@)
              ELSE [InSection(@, "prefer", 0, s) EXCEPT !.samples = Len(s)]]
    /\ UNCHANGED <<vertices, roots, last, pending, finalized, params, net, av, isRunning, stopChan>>

\* checkPreference for the next sample: a.mu.RLock(); it calls dag.GetVertex
\* for the sample and for the target
PvPreferLock(l) ==
    /\ loops[l].pc = "prefer"
    /\ CanRLock(locks.mu)
    /\ locks' = [locks EXCEPT !.mu = RLock(@, Worker(l))]
    /\ loops' = [loops EXCEPT ![l] = [@ EXCEPT !.pc = "checkPreference", !.calls = 2]]
    /\ UNCHANGED <<vertices, roots, last, pending, finalized, params, net, av, isRunning, stopChan>>

\* checkPreference returns, with its deferred a.mu.RUnlock(); after the
\* last sample the loop over the samples is over
PvPreferDone(l) ==
    /\ loops[l].pc = "checkPreference"
    /\ loops[l].calls = 0
    /\ locks' = [locks EXCEPT !.mu = RUnlock(@, Worker(l))]
    /\ \E prefers \in checkPreference(TheDag, Head(loops[l].queue), loops[l].id) :
          loops' = [loops EXCEPT ![l] =
              [@ EXCEPT !.pc = IF Tail(loops[l].queue) = <<>> THEN "update" ELSE "prefer",
                        !.queue = Tail(@),
                        !.preferCount = @ + (IF prefers THEN 1 ELSE 0)]]
    /\ UNCHANGED <<vertices, roots, last, pending, finalized, params, net, av, isRunning, stopChan>>

\* processVertex: below Alpha, Lock, a.pending[id] = 0, Unlock; at Alpha or
\* above, Lock and a.pending[id] = currentCount + 1, then
\* getConfidenceThreshold, which calls dag.GetVertex and dag.GetVertices
PvUpdateLock(l) ==
    /\ loops[l].pc = "update"
    /\ CanLock(locks.mu)
    /\ IF loops[l].preferCount >= params.Alpha
       THEN /\ locks' = [locks EXCEPT !.mu = Lock(@, Worker(l))]
            /\ pending' = MapPut(pending, loops[l].id, loops[l].currentCount + 1)
            /\ loops' = [loops EXCEPT ![l] =
                            [@ EXCEPT !.pc = "getConfidenceThreshold", !.calls = 2]]
       ELSE /\ pending' = MapPut(pending, loops[l].id, 0)
            /\ loops' = [loops EXCEPT ![l] = BackToRound(@)]
            /\ UNCHANGED locks
    /\ UNCHANGED <<vertices, roots, last, finalized, params, net, av, isRunning, stopChan>>

\* processVertex: the threshold is back; below it Unlock, at it
\* a.finalized[id] = true, delete(a.pending, id), then dag.GetVertex
PvThreshold(l) ==
    /\ loops[l].pc = "getConfidenceThreshold"
    /\ loops[l].calls = 0
    /\ LET id == loops[l].id
           threshold == getConfidenceThreshold(TheDag, params, id)
       IN  IF reachedThreshold(pending[id], threshold)
           THEN /\ finalized' = finalized \cup {id}
                /\ pending' = MapDelete(pending, id)
                /\ loops' = [loops EXCEPT ![l] = [@ EXCEPT !.pc = "GetVertex", !.calls = 1]]
                /\ UNCHANGED locks
           ELSE /\ locks' = [locks EXCEPT !.mu = Unlock(@)]
                /\ loops' = [loops EXCEPT ![l] = BackToRound(@)]
                /\ UNCHANGED <<pending, finalized>>
    /\ UNCHANGED <<vertices, roots, last, params, net, av, isRunning, stopChan>>

\* processVertex: dag.GetVertex has returned; v.Finalized = true
PvSetFinalized(l) ==
    /\ loops[l].pc = "GetVertex"
    /\ loops[l].calls = 0
    /\ vertices' = IF GetVertex(TheDag, loops[l].id) = "ok"
                   THEN [vertices EXCEPT ![loops[l].id].finalized = TRUE]
                   ELSE vertices
    /\ loops' = [loops EXCEPT ![l] = [@ EXCEPT !.pc = "Unlock"]]
    /\ UNCHANGED <<roots, last, pending, finalized, params, locks, net, av, isRunning, stopChan>>

\* processVertex: a.mu.Unlock() after the update
PvUnlock(l) ==
    /\ loops[l].pc = "Unlock"
    /\ locks' = [locks EXCEPT !.mu = Unlock(@)]
    /\ loops' = [loops EXCEPT ![l] = BackToRound(@)]
    /\ UNCHANGED <<vertices, roots, last, pending, finalized, params, net, av, isRunning, stopChan>>

\* The reader is between two requests.
ReaderIdle == IF last.op = "GetVertex" THEN last.pc = "ret" ELSE TRUE

ReaderAt(pc) == IF last.op = "GetVertex" THEN last.pc = pc ELSE FALSE

\* handleVertexByID: Avalanche.GetVertex goes to dag.GetVertex, d.mu.RLock()
ReadLock(id) ==
    /\ ReaderIdle
    /\ CanRLock(locks.dmu)
    /\ locks' = [locks EXCEPT !.dmu = RLock(@, Reader)]
    /\ last' = [op |-> "GetVertex", pc |-> "locked", id |-> id, err |-> "ok",
                Finalized |-> FALSE]
    /\ UNCHANGED <<vertices, roots, pending, finalized, params, net, av, isRunning, stopChan, loops>>

\* dag.GetVertex returns the vertex or ErrVertexNotFound, d.mu.RUnlock()
ReadUnlock ==
    /\ ReaderAt("locked")
    /\ locks' = [locks EXCEPT !.dmu = RUnlock(@, Reader)]
    /\ last' = [last EXCEPT !.err = GetVertex(TheDag, last.id),
                            !.pc = IF GetVertex(TheDag, last.id) = "ok"
                                   THEN "got" ELSE "ret"]
    /\ UNCHANGED <<vertices, roots, pending, finalized, params, net, av, isRunning, stopChan, loops>>

\* handleVertexByID builds the response: it reads vertex.Finalized holding
\* no lock.  A vertex removed in between keeps the flag it had, false.
ReadFinalized ==
    /\ ReaderAt("got")
    /\ last' = [last EXCEPT !.pc = "ret",
                            !.Finalized = IF last.id \in Keys(vertices)
                                          THEN vertices[last.id].finalized ELSE FALSE]
    /\ UNCHANGED <<vertices, roots, pending, finalized, params, locks, net, av, isRunning, stopChan, loops>>

NextLocks ==
    \/ \E id \in Ids, data \in Datas, parentIDs \in ParentLists : AvLock(id, data, parentIDs)
    \/ AvDagLock
    \/ AvDagCall
    \/ AvPending
    \/ AvUnlock
    \/ StartConsensus
    \/ \E l \in Loops : LoopSelect(l)
    \/ \E l \in Loops : LoopSnapshot(l)
    \/ \E l \in Loops : LoopEndRound(l)
    \/ \E l \in Loops : LoopProcess(l)
    \/ \E l \in Loops : PvSamplesLock(l)
    \/ \E l \in Loops : PvDagRLock(l)
    \/ \E l \in Loops : PvDagRUnlock(l)
    \/ \E l \in Loops : PvSamplesDone(l)
    \/ \E l \in Loops : PvPreferLock(l)
    \/ \E l \in Loops : PvPreferDone(l)
    \/ \E l \in Loops : PvUpdateLock(l)
    \/ \E l \in Loops : PvThreshold(l)
    \/ \E l \in Loops : PvSetFinalized(l)
    \/ \E l \in Loops : PvUnlock(l)
    \/ \E id \in Ids : ReadLock(id)
    \/ ReadUnlock
    \/ ReadFinalized

SpecLocks == Init /\ [][NextLocks]_vars

\* ------------------------------------------- engine: payloads of any type
\* AddVertex with payloads of comparable and of uncomparable types beside
\* one worker loop.  Nothing runs once a goroutine has panicked.
NoPanic == \A l \in Loops : loops[l].pc # "panic"

NextPayload ==
    \/ /\ NoPanic
       /\ \E id \in Ids, data \in Payloads, parentIDs \in ParentLists :
             AvCall(id, data, parentIDs)
    \/ NoPanic /\ StartConsensus
    \/ NoPanic /\ \E l \in Loops : LoopSelect(l)
    \/ NoPanic /\ \E l \in Loops : LoopSnapshot(l)
    \/ NoPanic /\ \E l \in Loops : LoopEndRound(l)
    \/ NoPanic /\ \E l \in Loops : LoopProcess(l)
    \/ NoPanic /\ \E l \in Loops : LoopSample(l)
    \/ NoPanic /\ \E l \in Loops : LoopUpdate(l)

SpecPayload == Init /\ [][NextPayload]_vars

\* ------------------------------------------- peer service: the directory
\* PeerService.AddPeer: p.peers[peerID] = address
PeerAddPeer(ps, peerID, address) == MapPut(ps, peerID, address)

\* PeerService.RemovePeer: delete(p.peers, peerID)
PeerRemovePeer(ps, peerID) == MapDelete(ps, peerID)

\* The vertex messages a peer can send.
Messages ==
    [id : Ids, data : Datas, parentIDs : ParentLists, sender : Peers]

\* PeerService.HandleVertexRequest for a decoded message that arrives from
\* address addr: receiveVertex, which is ConsensusService.ReceiveVertex and
\* so Avalanche.AddVertex; on its error the handler answers 500 and
\* returns; otherwise a sender that is not in the directory is added.
\* last holds the sender, the address and what receiveVertex returned.
HandleVertexRequest(msg, addr) ==
    /\ EngineLockFree
    /\ LET r == EngineAddVertex(TheDag, pending, msg.id, msg.data, msg.parentIDs)
       IN  /\ vertices' = r.d.vertices
           /\ roots' = r.d.roots
           /\ pending' = r.pending
           /\ net' = [net EXCEPT !.peers =
                         IF r.err = "ok" /\ msg.sender \notin Keys(@)
                         THEN PeerAddPeer(@, msg.sender, addr)
                         ELSE @]
           /\ last' = [op |-> "HandleVertexRequest", a |-> msg.sender, b |-> addr,
                       err |-> r.err]
    /\ UNCHANGED <<finalized, params, locks, av, isRunning, stopChan, loops>>

\* HandleConnectRequest and ConnectToPeers: AddPeer
AddPeer(peerID, address) ==
    /\ net' = [net EXCEPT !.peers = PeerAddPeer(@, peerID, address)]
    /\ last' = [op |-> "AddPeer", a |-> peerID, b |-> address, err |-> "ok"]
    /\ UNCHANGED <<vertices, roots, engineVarsButNet>>

RemovePeer(peerID) ==
    /\ net' = [net EXCEPT !.peers = PeerRemovePeer(@, peerID)]
    /\ last' = [op |-> "RemovePeer", a |-> peerID, b |-> 0, err |-> "ok"]
    /\ UNCHANGED <<vertices, roots, engineVarsButNet>>

NextPeer ==
    \/ \E msg \in Messages, addr \in Addrs : HandleVertexRequest(msg, addr)
    \/ \E peerID \in Peers, address \in Addrs : AddPeer(peerID, address)
    \/ \E peerID \in Peers : RemovePeer(peerID)

SpecPeer == Init /\ [][NextPeer]_vars

\* ------------------------------------------- every thread, lock by lock
\* The calls on a.mu (mu), d.mu (dmu) and the peer service's p.mu (pmu) of
\* every thread at once, in the order each function makes them.  What a
\* function decides from the data (an error, a finalized vertex, how many
\* ids, samples or DAG calls) is any of the outcomes it can have.  av is the
\* caller of AddVertex, loops the workers, last the request of the API.
\*
\* StartConsensus and StopConsensus hold the service's own lock around a go
\* statement and a close, which wait for nothing: each is one step.

MaxCalls == 3

CallerAt(pcs) == av.pc \in pcs

\* AddVertex: a.mu.Lock(); n parents are to be connected
CallerLock(n) ==
    /\ av.pc = "idle"
    /\ CanLock(locks.mu)
    /\ locks' = [locks EXCEPT !.mu = Lock(@, Caller)]
    /\ av' = [pc |-> "AddVertex", n |-> n]
    /\ UNCHANGED <<vertices, roots, last, pending, finalized, params, net, isRunning, stopChan, loops>>

\* d.mu.Lock() at the top of dag.AddVertex, dag.AddEdge, dag.RemoveVertex
CallerDagLock ==
    /\ CallerAt({"AddVertex", "AddEdge", "RemoveVertex"})
    /\ locks.dmu.w # Caller
    /\ CanLock(locks.dmu)
    /\ locks' = [locks EXCEPT !.dmu = Lock(@, Caller)]
    /\ UNCHANGED <<vertices, roots, last, pending, finalized, params, net, av, isRunning, stopChan, loops>>

\* Where AddVertex goes after a DAG call that failed (err) or not.
CallerAfter(pc, n, err) ==
    CASE pc = "AddVertex" ->
            IF err THEN [pc |-> "return", n |-> 0]
            ELSE [pc |-> IF n = 0 THEN "return" ELSE "AddEdge", n |-> n]
      [] pc = "AddEdge" ->
            IF err THEN [pc |-> "RemoveVertex", n |-> 0]
            ELSE [pc |-> IF n = 1 THEN "return" ELSE "AddEdge", n |-> n - 1]
      [] OTHER -> [pc |-> "return", n |-> 0]

\* the deferred d.mu.Unlock() of the DAG call
CallerDagUnlock ==
    /\ CallerAt({"AddVertex", "AddEdge", "RemoveVertex"})
    /\ locks.dmu.w = Caller
    /\ locks' = [locks EXCEPT !.dmu = Unlock(@)]
    /\ \E err \in BOOLEAN : av' = CallerAfter(av.pc, av.n, err)
    /\ UNCHANGED <<vertices, roots, last, pending, finalized, params, net, isRunning, stopChan, loops>>

\* AddVertex returns, with its deferred a.mu.Unlock().  ProposeVertex goes
\* on to BroadcastVertex, HandleVertexRequest to AddPeer, ReceiveVertex
\* returns.
CallerUnlock ==
    /\ av.pc = "return"
    /\ locks' = [locks EXCEPT !.mu = Unlock(@)]
    /\ \E next \in {"idle", "BroadcastVertex", "AddPeer"} :
          av' = IF next = "idle" THEN AvIdle ELSE [pc |-> next, n |-> 0]
    /\ UNCHANGED <<vertices, roots, last, pending, finalized, params, net, isRunning, stopChan, loops>>

\* BroadcastVertex: p.mu.RLock(); AddPeer: p.mu.Lock()
CallerPeerLock ==
    /\ CallerAt({"BroadcastVertex", "AddPeer"})
    /\ ~ Holds(locks.pmu, Caller)
    /\ IF av.pc = "AddPeer"
       THEN /\ CanLock(locks.pmu)
            /\ locks' = [locks EXCEPT !.pmu = Lock(@, Caller)]
       ELSE /\ CanRLock(locks.pmu)
            /\ locks' = [locks EXCEPT !.pmu = RLock(@, Caller)]
    /\ UNCHANGED <<vertices, roots, last, pending, finalized, params, net, av, isRunning, stopChan, loops>>

\* BroadcastVertex and AddPeer return, with the deferred unlock of p.mu
CallerPeerUnlock ==
    /\ CallerAt({"BroadcastVertex", "AddPeer"})
    /\ Holds(locks.pmu, Caller)
    /\ locks' = [locks EXCEPT !.pmu = IF av.pc = "AddPeer"
                                      THEN Unlock(@) ELSE RUnlock(@, Caller)]
    /\ av' = AvIdle
    /\ UNCHANGED <<vertices, roots, last, pending, finalized, params, net, isRunning, stopChan, loops>>

\* A worker at pc with n ids left in its round, s samples left to ask and
\* calls DAG calls left in the function it is in.
WorkerState(w, pc, n, s, calls) ==
    [LoopNone EXCEPT !.pc = pc, !.stop = w.stop, !.id = n, !.samples = s,
                     !.preferCount = calls]

\* The worker after the vertex it was processing: the next id of the
\* snapshot, or the select of RunConsensus.
WorkerNext(w) ==
    WorkerState(w, IF w.id > 1 THEN "processVertex" ELSE "select",
                IF w.id > 1 THEN w.id - 1 ELSE 0, 0, 0)

\* RunConsensus: the select on the stop channel
WorkerSelect(l) ==
    /\ loops[l].pc = "select"
    /\ loops' = [loops EXCEPT ![l] =
                    IF @.stop THEN LoopNone ELSE WorkerState(@, "consensusRound", 0, 0, 0)]
    /\ UNCHANGED <<vertices, roots, last, pending, finalized, params, locks, net, av, isRunning, stopChan>>

\* consensusRound: a.mu.Lock()
WorkerRoundLock(l) ==
    /\ loops[l].pc = "consensusRound"
    /\ CanLock(locks.mu)
    /\ locks' = [locks EXCEPT !.mu = Lock(@, Worker(l))]
    /\ loops' = [loops EXCEPT ![l] = WorkerState(@, "copy", 0, 0, 0)]
    /\ UNCHANGED <<vertices, roots, last, pending, finalized, params, net, av, isRunning, stopChan>>

\* consensusRound: a.mu.Unlock() with n ids copied
WorkerRoundUnlock(l, n) ==
    /\ loops[l].pc = "copy"
    /\ locks' = [locks EXCEPT !.mu = Unlock(@)]
    /\ loops' = [loops EXCEPT ![l] = WorkerNext(WorkerState(@, "copy", n + 1, 0, 0))]
    /\ UNCHANGED <<vertices, roots, last, pending, finalized, params, net, av, isRunning, stopChan>>

\* a.mu.RLock() at the top of processVertex, getSamples, checkPreference
WorkerRLock(l) ==
    /\ loops[l].pc \in {"processVertex", "getSamples", "checkPreference"}
    /\ ~ Holds(locks.mu, Worker(l))
    /\ CanRLock(locks.mu)
    /\ locks' = [locks EXCEPT !.mu = RLock(@, Worker(l))]
    /\ \E calls \in 1..2 :
          loops' = [loops EXCEPT ![l] =
              [@ EXCEPT !.preferCount = IF loops[l].pc = "processVertex" THEN 0 ELSE calls]]
    /\ UNCHANGED <<vertices, roots, last, pending, finalized, params, net, av, isRunning, stopChan>>

\* processVertex: a.mu.RUnlock(), after the finalized check or after the
\* read of the counter
WorkerCheckUnlock(l) ==
    /\ loops[l].pc = "processVertex"
    /\ Holds(locks.mu, Worker(l))
    /\ locks' = [locks EXCEPT !.mu = RUnlock(@, Worker(l))]
    /\ \E isFinalized \in BOOLEAN :
          loops' = [loops EXCEPT ![l] =
              IF isFinalized THEN WorkerNext(@) ELSE [@ EXCEPT !.pc = "getSamples"]]
    /\ UNCHANGED <<vertices, roots, last, pending, finalized, params, net, av, isRunning, stopChan>>

\* d.mu.RLock() at the top of dag.GetVertex and dag.GetVertices
WorkerDagRLock(l) ==
    /\ loops[l].pc \in {"getSamples", "checkPreference", "update"}
    /\ Holds(locks.mu, Worker(l))
    /\ loops[l].preferCount > 0
    /\ ~ Holds(locks.dmu, Worker(l))
    /\ CanRLock(locks.dmu)
    /\ locks' = [locks EXCEPT !.dmu = RLock(@, Worker(l))]
    /\ UNCHANGED <<vertices, roots, last, pending, finalized, params, net, av, isRunning, stopChan, loops>>

\* the deferred d.mu.RUnlock() of dag.GetVertex and dag.GetVertices
WorkerDagRUnlock(l) ==
    /\ Holds(locks.dmu, Worker(l))
    /\ locks' = [locks EXCEPT !.dmu = RUnlock(@, Worker(l))]
    /\ loops' = [loops EXCEPT ![l] = [@ EXCEPT !.preferCount = @ - 1]]
    /\ UNCHANGED <<vertices, roots, last, pending, finalized, params, net, av, isRunning, stopChan>>

\* getSamples returns s samples, with its deferred a.mu.RUnlock()
WorkerSamplesUnlock(l, s) ==
    /\ loops[l].pc = "getSamples"
    /\ Holds(locks.mu, Worker(l))
    /\ loops[l].preferCount = 0
    /\ locks' = [locks EXCEPT !.mu = RUnlock(@, Worker(l))]
    /\ loops' = [loops EXCEPT ![l] =
                    IF s = 0 THEN WorkerNext(@)
                    ELSE [@ EXCEPT !.pc = "checkPreference", !.samples = s]]
    /\ UNCHANGED <<vertices, roots, last, pending, finalized, params, net, av, isRunning, stopChan>>

\* checkPreference returns, with its deferred a.mu.RUnlock()
WorkerPreferUnlock(l) ==
    /\ loops[l].pc = "checkPreference"
    /\ Holds(locks.mu, Worker(l))
    /\ loops[l].preferCount = 0
    /\ locks' = [locks EXCEPT !.mu = RUnlock(@, Worker(l))]
    /\ loops' = [loops EXCEPT ![l] =
                    [@ EXCEPT !.pc = IF loops[l].samples = 1
                                     THEN "update" ELSE "checkPreference",
                              !.samples = @ - 1]]
    /\ UNCHANGED <<vertices, roots, last, pending, finalized, params, net, av, isRunning, stopChan>>

\* processVertex: a.mu.Lock() of either branch; at Alpha or above
\* getConfidenceThreshold calls dag.GetVertex and dag.GetVertices, and a
\* vertex at its threshold dag.GetVertex once more
WorkerUpdateLock(l, calls) ==
    /\ loops[l].pc = "update"
    /\ ~ Holds(locks.mu, Worker(l))
    /\ CanLock(locks.mu)
    /\ locks' = [locks EXCEPT !.mu = Lock(@, Worker(l))]
    /\ loops' = [loops EXCEPT ![l] = [@ EXCEPT !.preferCount = calls]]
    /\ UNCHANGED <<vertices, roots, last, pending, finalized, params, net, av, isRunning, stopChan>>

\* processVertex: a.mu.Unlock() of either branch
WorkerUpdateUnlock(l) ==
    /\ loops[l].pc = "update"
    /\ locks.mu.w = Worker(l)
    /\ loops[l].preferCount = 0
    /\ ~ Holds(locks.dmu, Worker(l))
    /\ locks' = [locks EXCEPT !.mu = Unlock(@)]
    /\ loops' = [loops EXCEPT ![l] = WorkerNext(@)]
    /\ UNCHANGED <<vertices, roots, last, pending, finalized, params, net, av, isRunning, stopChan>>

RequestAt(pcs) == IF last.op = "request" THEN last.pc \in pcs ELSE FALSE

\* handleVertexByID and handleListVertices: d.mu.RLock() of dag.GetVertex
\* and dag.GetVertices
RequestDagRLock ==
    /\ last.op = "none"
    /\ CanRLock(locks.dmu)
    /\ locks' = [locks EXCEPT !.dmu = RLock(@, Reader)]
    /\ last' = [op |-> "request", pc |-> "GetVertex", calls |-> 0]
    /\ UNCHANGED <<vertices, roots, pending, finalized, params, net, av, isRunning, stopChan, loops>>

\* The return of dag.GetVertex that goes on holding d.mu while the response
\* is built.
RequestDagRUnlock_KeepsLock ==
    /\ RequestAt({"GetVertex"})
    /\ \E found \in BOOLEAN :
          /\ last' = IF found THEN [last EXCEPT !.pc = "IsPending"] ELSE NoCall
          /\ locks' = IF found THEN locks
                      ELSE [locks EXCEPT !.dmu = RUnlock(@, Reader)]
    /\ UNCHANGED <<vertices, roots, pending, finalized, params, net, av, isRunning, stopChan, loops>>

\* the deferred d.mu.RUnlock(); handleVertexByID goes on to IsPending when
\* the vertex was found
RequestDagRUnlock ==
    /\ RequestAt({"GetVertex"})
    /\ locks' = [locks EXCEPT !.dmu = RUnlock(@, Reader)]
    /\ \E found \in BOOLEAN :
          last' = IF found THEN [last EXCEPT !.pc = "IsPending"] ELSE NoCall
    /\ UNCHANGED <<vertices, roots, pending, finalized, params, net, av, isRunning, stopChan, loops>>

\* IsPending, and GetFinalized with one dag.GetVertex per finalized id:
\* a.mu.RLock()
RequestRLock(calls) ==
    /\ IF last.op = "none" THEN TRUE ELSE RequestAt({"IsPending"}) /\ calls = 0
    /\ CanRLock(locks.mu)
    /\ locks' = [locks EXCEPT !.mu = RLock(@, Reader)]
    /\ last' = [op |-> "request",
                pc |-> IF last.op = "none" THEN "GetFinalized" ELSE "locked",
                calls |-> calls]
    /\ UNCHANGED <<vertices, roots, pending, finalized, params, net, av, isRunning, stopChan, loops>>

\* GetFinalized: d.mu.RLock() at the top of dag.GetVertex
RequestNestedRLock ==
    /\ RequestAt({"GetFinalized"})
    /\ last.calls > 0
    /\ ~ Holds(locks.dmu, Reader)
    /\ CanRLock(locks.dmu)
    /\ locks' = [locks EXCEPT !.dmu = RLock(@, Reader)]
    /\ UNCHANGED <<vertices, roots, last, pending, finalized, params, net, av, isRunning, stopChan, loops>>

\* GetFinalized: dag.GetVertex returns, with its deferred d.mu.RUnlock()
RequestNestedRUnlock ==
    /\ RequestAt({"GetFinalized"})
    /\ Holds(locks.dmu, Reader)
    /\ locks' = [locks EXCEPT !.dmu = RUnlock(@, Reader)]
    /\ last' = [last EXCEPT !.calls = @ - 1]
    /\ UNCHANGED <<vertices, roots, pending, finalized, params, net, av, isRunning, stopChan, loops>>

\* IsPending and GetFinalized return, with their deferred a.mu.RUnlock()
RequestRUnlock ==
    /\ RequestAt({"locked", "GetFinalized"})
    /\ last.calls = 0
    /\ locks' = [locks EXCEPT !.mu = RUnlock(@, Reader),
                              !.dmu = RUnlock(@, Reader)]
    /\ last' = NoCall
    /\ UNCHANGED <<vertices, roots, pending, finalized, params, net, av, isRunning, stopChan, loops>>

\* The directory requests of the API: p.mu.Lock() of AddPeer and
\* RemovePeer, p.mu.RLock() of GetPeers
RequestPeerLock(write) ==
    /\ last.op = "none"
    /\ IF write
       THEN /\ CanLock(locks.pmu)
            /\ locks' = [locks EXCEPT !.pmu = Lock(@, Reader)]
       ELSE /\ CanRLock(locks.pmu)
            /\ locks' = [locks EXCEPT !.pmu = RLock(@, Reader)]
    /\ last' = [op |-> "request", pc |-> "peers", calls |-> 0]
    /\ UNCHANGED <<vertices, roots, pending, finalized, params, net, av, isRunning, stopChan, loops>>

\* AddPeer, RemovePeer and GetPeers return, with the deferred unlock of p.mu
RequestPeerUnlock ==
    /\ RequestAt({"peers"})
    /\ locks' = [locks EXCEPT !.pmu = IF @.w = Reader
                                      THEN Unlock(@) ELSE RUnlock(@, Reader)]
    /\ last' = NoCall
    /\ UNCHANGED <<vertices, roots, pending, finalized, params, net, av, isRunning, stopChan, loops>>

NextLockOrder ==
    \/ \E n \in 0..MaxParents : CallerLock(n)
    \/ CallerDagLock
    \/ CallerDagUnlock
    \/ CallerUnlock
    \/ CallerPeerLock
    \/ CallerPeerUnlock
    \/ StartConsensus
    \/ StopConsensus
    \/ \E l \in Loops : WorkerSelect(l)
    \/ \E l \in Loops : WorkerRoundLock(l)
    \/ \E l \in Loops, n \in 0..NumIds : WorkerRoundUnlock(l, n)
    \/ \E l \in Loops : WorkerRLock(l)
    \/ \E l \in Loops : WorkerCheckUnlock(l)
    \/ \E l \in Loops : WorkerDagRLock(l)
    \/ \E l \in Loops : WorkerDagRUnlock(l)
    \/ \E l \in Loops, s \in 0..MaxK : WorkerSamplesUnlock(l, s)
    \/ \E l \in Loops : WorkerPreferUnlock(l)
    \/ \E l \in Loops, calls \in 0..MaxCalls : WorkerUpdateLock(l, calls)
    \/ \E l \in Loops : WorkerUpdateUnlock(l)
    \/ RequestDagRLock
    \/ RequestDagRUnlock
    \/ \E calls \in 0..NumIds : RequestRLock(calls)
    \/ RequestNestedRLock
    \/ RequestNestedRUnlock
    \/ RequestRUnlock
    \/ \E write \in BOOLEAN : RequestPeerLock(write)
    \/ RequestPeerUnlock

SpecLockOrder == Init /\ [][NextLockOrder]_vars

\* ------------------------------------------- two nodes: gossip
\* This node and one remote node, each with its engine.  The remote node
\* has this node in its directory; net.remote is its engine, net.inbox the
\* vertex messages it has posted to this node that have not arrived yet,
\* net.outbox how many messages this node has posted per vertex and peer.
RemoteId == 1

\* ProposeVertex on the remote node: AddVertex, then BroadcastVertex starts
\* one transmission to each peer, this node among them
RemoteProposeVertex(id, data, parentIDs) ==
    LET r == EngineAddVertex(net.remote.d, net.remote.pending, id, data, parentIDs)
    IN  /\ r.err = "ok"
        /\ net' = [net EXCEPT
                     !.remote = [d |-> r.d, pending |-> r.pending],
                     !.inbox = @ \cup {[id |-> id, data |-> data,
                                        parentIDs |-> parentIDs, sender |-> RemoteId]}]
        /\ UNCHANGED <<vertices, roots, last, pending, finalized, params, locks, av, isRunning, stopChan, loops>>

\* HandleVertexRequest that broadcasts the vertex it inserted to the peers
\* of this node.
DeliverVertex_Rebroadcasts(msg, addr) ==
    /\ msg \in net.inbox
    /\ EngineLockFree
    /\ LET r == EngineAddVertex(TheDag, pending, msg.id, msg.data, msg.parentIDs)
           sent == IF r.err = "ok" THEN {<<msg.id, p>> : p \in Keys(net.peers)} ELSE {}
       IN  /\ vertices' = r.d.vertices
           /\ roots' = r.d.roots
           /\ pending' = r.pending
           /\ net' = [net EXCEPT
                        !.inbox = @ \ {msg},
                        !.peers = IF r.err = "ok" /\ msg.sender \notin Keys(@)
                                  THEN PeerAddPeer(@, msg.sender, addr)
                                  ELSE @,
                        !.outbox = [k \in Keys(@) \cup sent |->
                                       (IF k \in Keys(@) THEN @[k] ELSE 0) +
                                       (IF k \in sent THEN 1 ELSE 0)]]
           /\ last' = [op |-> "HandleVertexRequest", a |-> msg.sender, b |-> addr,
                       err |-> r.err]
    /\ UNCHANGED <<finalized, params, locks, av, isRunning, stopChan, loops>>

\* A transmission of the remote node arrives: HandleVertexRequest on this
\* node, which calls ReceiveVertex, the engine's AddVertex, and adds the
\* sender to the directory
DeliverVertex(msg, addr) ==
    /\ msg \in net.inbox
    /\ EngineLockFree
    /\ LET r == EngineAddVertex(TheDag, pending, msg.id, msg.data, msg.parentIDs)
       IN  /\ vertices' = r.d.vertices
           /\ roots' = r.d.roots
           /\ pending' = r.pending
           /\ net' = [net EXCEPT
                        !.inbox = @ \ {msg},
                        !.peers = IF r.err = "ok" /\ msg.sender \notin Keys(@)
                                  THEN PeerAddPeer(@, msg.sender, addr)
                                  ELSE @]
           /\ last' = [op |-> "HandleVertexRequest", a |-> msg.sender, b |-> addr,
                       err |-> r.err]
    /\ UNCHANGED <<finalized, params, locks, av, isRunning, stopChan, loops>>

\* ProposeVertex on this node: AddVertex, then BroadcastVertex starts one
\* transmission to each peer of the directory
LocalProposeVertex(id, data, parentIDs) ==
    /\ EngineLockFree
    /\ LET r == EngineAddVertex(TheDag, pending, id, data, parentIDs)
           sent == IF r.err = "ok" THEN {<<id, p>> : p \in Keys(net.peers)} ELSE {}
       IN  /\ vertices' = r.d.vertices
           /\ roots' = r.d.roots
           /\ pending' = r.pending
           /\ net' = [net EXCEPT
                        !.outbox = [k \in Keys(@) \cup sent |->
                                       (IF k \in Keys(@) THEN @[k] ELSE 0) +
                                       (IF k \in sent THEN 1 ELSE 0)]]
           /\ last' = [op |-> "ProposeVertex", pc |-> "ret", id |-> id, err |-> r.err,
                       bcast |-> "ok", sends |-> EmptyMap]
    /\ UNCHANGED <<finalized, params, locks, av, isRunning, stopChan, loops>>

\* The payload and a second parent change nothing in what is posted: one
\* payload, at most one parent.
GossipParentLists == {pl \in ParentLists : Len(pl) <= 1}

NextGossip ==
    \/ \E id \in Ids, parentIDs \in GossipParentLists :
          RemoteProposeVertex(id, 1, parentIDs)
    \/ \E msg \in net.inbox, addr \in Addrs : DeliverVertex(msg, addr)
    \/ \E id \in Ids, parentIDs \in GossipParentLists :
          LocalProposeVertex(id, 1, parentIDs)
    \/ \E peerID \in Peers : AddPeer(peerID, 1)
    \/ \E peerID \in Peers : RemovePeer(peerID)

SpecGossip == Init /\ [][NextGossip]_vars

\* ================================================================= claims
\* The ancestors of v by the parents relation of vs, as a least fixpoint
\* (independent of the searches of the code).
RECURSIVE Closure(_, _)
Closure(vs, S) ==
    LET T == S \cup UNION {vs[x].parents : x \in S \cap Keys(vs)}
    IN  IF T = S THEN S ELSE Closure(vs, T)

Ancestors(vs, v) == Closure(vs, vs[v].parents)

\* Another stored vertex has the same data as id.
HasConflict(id) ==
    \E other \in Keys(vertices) : other # id /\ vertices[other].data = vertices[id].data

\* The number of consecutive successes that finalizes id.
Beta(id) == IF HasConflict(id) THEN params.BetaRogue ELSE params.BetaVirtuous

\* C1: after any sequence of DAG-store AddVertex and AddEdge calls no vertex
\* is reachable from itself by following parent edges.
C1_Acyclic ==
    \A v \in Keys(vertices) : v \notin Ancestors(vertices, v)

\* C2: AddEdge(parentId, childId) with both endpoints present, where childId
\* is parentId or already an ancestor of parentId, returns WouldCreateCycle
\* and leaves vertices, parent/child sets and roots unchanged.
C2_CycleRejected ==
    [][\A parentID \in DagIds, childID \in DagIds :
          ( /\ AddEdge(parentID, childID)
            /\ parentID \in Keys(vertices)
            /\ childID \in Keys(vertices)
            /\ childID = parentID \/ childID \in Ancestors(vertices, parentID) )
          => ( /\ last'.err = "WouldCreateCycle"
               /\ vertices' = vertices
               /\ roots' = roots )]_vars

\* C3: in every reachable state no vertex id is both in pending and in
\* finalized.
C3_PendingFinalizedDisjoint ==
    Keys(pending) \cap finalized = {}

\* C4: every id in pending or in finalized is the id of a vertex stored in
\* the DAG.
C4_ConsensusIdsInDag ==
    (Keys(pending) \cup finalized) \subseteq Keys(vertices)

\* C4 witness: the DAG holds a finalized vertex and a pending one.
C4_Witness ==
    /\ finalized # {}
    /\ Keys(pending) \ finalized # {}
    /\ C4_ConsensusIdsInDag

\* C5: a vertex's finalized flag is false until the engine finalizes it,
\* and a finalized vertex stays finalized and never appears in pending
\* again.
C5_MonotonicFinalization ==
    [][\A id \in Ids :
          /\ (id \in Keys(vertices') /\ vertices'[id].finalized) => id \in finalized'
          /\ (id \in Keys(vertices) /\ vertices[id].finalized)
                => ( /\ id \in Keys(vertices')
                     /\ vertices'[id].finalized
                     /\ id \in finalized'
                     /\ id \notin Keys(pending') )]_vars

\* C6: AddVertex with an id already in the DAG returns AlreadyExists and
\* changes nothing: the DAG (data, parents, children, flags, roots), the
\* counters in pending and the finalized set are as before the call.
C6_DuplicateRejected ==
    (av.pc # "idle" /\ av.id \in Keys(av.pre.vertices))
        => ( /\ av.pc = "ret"
             /\ av.err = "AlreadyExists"
             /\ Snapshot = av.pre )

\* C6 witness: a call with other data and a parent list, for the id of a
\* finalized vertex, has returned AlreadyExists.
C6_Witness ==
    /\ av.pc = "ret"
    /\ av.err = "AlreadyExists"
    /\ av.id \in finalized
    /\ av.data # vertices[av.id].data
    /\ av.parentIDs # <<>>

\* The ids a parent list may name without an edge error of kind NotFound.
C7_Known == Keys(av.pre.vertices) \cup {av.id}

\* C7: an AddVertex that fails on an edge returns the edge error (NotFound
\* for a missing parent) and leaves the state as before the call: id is not
\* in the DAG, in no vertex's children, and roots, pending and finalized
\* are unchanged; a list naming a missing parent does fail.
C7_FailedInsertRolledBack ==
    /\ (av.pc = "ret" /\ av.err \notin {"ok", "AlreadyExists"})
          => ( /\ av.err \in {"NotFound", "WouldCreateCycle"}
               /\ Head(av.rest) \notin C7_Known => av.err = "NotFound"
               /\ Snapshot = av.pre
               /\ av.id \notin Keys(vertices)
               /\ \A v \in Keys(vertices) : av.id \notin vertices[v].children )
    /\ ( /\ av.pc = "ret"
         /\ av.id \notin Keys(av.pre.vertices)
         /\ \E i \in DOMAIN av.parentIDs : av.parentIDs[i] \notin C7_Known )
          => av.err \in {"NotFound", "WouldCreateCycle"}

\* C7 witness: the call linked its first parent, a pending vertex, found
\* the second missing and has returned NotFound.
C7_Witness ==
    /\ av.pc = "ret"
    /\ av.err = "NotFound"
    /\ Len(av.parentIDs) = 2
    /\ Len(av.rest) = 1
    /\ av.parentIDs[1] \in Keys(vertices)
    /\ av.parentIDs[1] \in Keys(pending)
    /\ av.parentIDs[2] \notin Keys(vertices)

\* C8: a successful AddVertex leaves the vertex in the DAG with the given
\* data and exactly the given parents, in each parent's children, not
\* finalized, in pending with counter 0; no other counter and no finalized
\* status changes.
C8_SuccessfulInsert ==
    (av.pc = "ret" /\ av.err = "ok")
        => ( /\ av.id \in Keys(vertices)
             /\ vertices[av.id].data = av.data
             /\ vertices[av.id].parents = Range(av.parentIDs)
             /\ \A p \in Range(av.parentIDs) :
                   p \in Keys(vertices) /\ av.id \in vertices[p].children
             /\ ~ vertices[av.id].finalized
             /\ av.id \notin finalized
             /\ av.id \in Keys(pending)
             /\ pending[av.id] = 0
             /\ Keys(pending) = Keys(av.pre.pending) \cup {av.id}
             /\ \A o \in Keys(av.pre.pending) \ {av.id} : pending[o] = av.pre.pending[o]
             /\ finalized = av.pre.finalized
             /\ \A o \in Keys(av.pre.vertices) :
                   /\ o \in Keys(vertices)
                   /\ vertices[o].finalized = av.pre.vertices[o].finalized )

\* C8 witness: a call naming a pending vertex as parent has returned its
\* vertex.
C8_Witness ==
    /\ av.pc = "ret"
    /\ av.err = "ok"
    /\ av.parentIDs # <<>>
    /\ Keys(av.pre.pending) # {}
    /\ Keys(pending) # Keys(av.pre.pending)

\* C9: the update in which the counter of a vertex reaches its threshold
\* (BetaVirtuous without a conflicting vertex in the DAG, BetaRogue with
\* one) ends with the vertex in finalized, absent from pending and flagged
\* finalized; no vertex stays pending with its counter at its threshold.
C9_FinalizedAtThreshold ==
    /\ [](\A id \in Keys(pending) : pending[id] < Beta(id))
    /\ [][\A l \in Loops :
            ( /\ LoopUpdate(l)
              /\ loops[l].preferCount >= params.Alpha
              /\ loops[l].currentCount + 1 >= Beta(loops[l].id) )
            => ( /\ loops[l].id \in finalized'
                 /\ loops[l].id \notin Keys(pending')
                 /\ vertices'[loops[l].id].finalized )]_vars

\* C9 witness: a vertex without a conflict has been finalized.
C9_Witness ==
    \E id \in finalized :
        /\ ~ HasConflict(id)
        /\ vertices[id].finalized
        /\ id \notin Keys(pending)
        /\ Cardinality(Keys(vertices)) > 1

\* C10: a vertex that has a conflicting vertex in the DAG is moved to
\* finalized only by an update that brings its counter to BetaRogue;
\* BetaVirtuous alone does not finalize it.
C10_RogueThreshold ==
    [][\A l \in Loops :
          ( /\ LoopUpdate(l)
            /\ HasConflict(loops[l].id)
            /\ loops[l].id \notin finalized
            /\ loops[l].id \in finalized' )
          => ( /\ loops[l].preferCount >= params.Alpha
               /\ loops[l].currentCount + 1 >= params.BetaRogue )]_vars

\* C10 witness: of two conflicting vertices one has been finalized and the
\* other is pending with its counter at BetaVirtuous.
C10_Witness ==
    \E x \in finalized, y \in Keys(pending) \ finalized :
        /\ x # y
        /\ vertices[x].data = vertices[y].data
        /\ pending[y] >= params.BetaVirtuous
        /\ pending[y] < params.BetaRogue

\* C11: an update of the worker loop changes the counter of a pending
\* vertex by +1 when the approvals reach Alpha (the vertex leaving pending
\* only by being finalized) and sets it to 0 when they do not; a skipped
\* round leaves it alone; no step moves a counter other than by +1 or to 0,
\* and no counter is negative.
C11_CounterStep ==
    /\ [](\A id \in Keys(pending) : pending[id] >= 0)
    /\ [][\A id \in Keys(pending) \cap Keys(pending') :
             pending'[id] \in {pending[id], pending[id] + 1, 0}]_vars
    /\ [][\A l \in Loops :
            (LoopSample(l) /\ loops'[l].pc = "iter") => pending' = pending]_vars
    /\ [][\A l \in Loops :
            (LoopUpdate(l) /\ loops[l].id \in Keys(pending))
            => IF loops[l].preferCount >= params.Alpha
               THEN \/ /\ loops[l].id \in Keys(pending')
                       /\ pending'[loops[l].id] = pending[loops[l].id] + 1
                    \/ /\ loops[l].id \notin Keys(pending')
                       /\ loops[l].id \in finalized'
               ELSE /\ loops[l].id \in Keys(pending')
                    /\ pending'[loops[l].id] = 0]_vars

\* C12: the sampler returns exactly K pairwise-distinct ids, none of them
\* the target, when the DAG holds at least K vertices other than the
\* target, and the empty sequence when it holds fewer than K.
C12_SampleSize ==
    [][\A id \in DagIds :
          Sample(id)
          => LET candidates == Keys(vertices) \ {id}
                 s == last'.samples
             IN  IF Cardinality(candidates) >= params.K
                 THEN /\ Len(s) = params.K
                      /\ \A i, j \in DOMAIN s : i # j => s[i] # s[j]
                      /\ Range(s) \subseteq candidates
                 ELSE s = <<>>]_vars

\* C13: when the DAG holds fewer than K vertices other than the pending
\* vertex being processed, processVertex returns after the sampling; the
\* counter is written and the vertex finalized only in a round that got K
\* samples.
C13_SkipBelowK ==
    /\ [][\A l \in Loops :
            ( /\ LoopSample(l)
              /\ Cardinality(Keys(vertices) \ {loops[l].id}) < params.K )
            => loops'[l].pc = "iter"]_vars
    /\ [][\A l \in Loops :
            (LoopUpdate(l) /\ loops[l].samples < params.K)
            => (pending' = pending /\ finalized' = finalized)]_vars

\* C14: a successful DAG RemoveVertex(id) leaves GetVertex(id) returning
\* NotFound, id in no remaining vertex's parents or children, and every
\* former child of id without another parent in GetRoots(); RemoveVertex of
\* an unknown id returns NotFound and changes nothing.
C14_RemoveVertex ==
    [][\A id \in DagIds :
          RemoveVertex(id)
          => IF id \in Keys(vertices)
             THEN /\ last'.err = "ok"
                  /\ GetVertex([vertices |-> vertices', roots |-> roots'], id) = "NotFound"
                  /\ \A v \in Keys(vertices') :
                        id \notin (vertices'[v].parents \cup vertices'[v].children)
                  /\ \A c \in vertices[id].children :
                        vertices[c].parents \subseteq {id}
                            => c \in GetRoots([vertices |-> vertices', roots |-> roots'])
             ELSE /\ last'.err = "NotFound"
                  /\ vertices' = vertices
                  /\ roots' = roots]_vars

\* C14 witness: a RemoveVertex has succeeded and the DAG it left holds a
\* root whose child has no other parent, the case of the next removal.
C14_Witness ==
    /\ last.op = "RemoveVertex"
    /\ last.err = "ok"
    /\ GetVertex(TheDag, last.a) = "NotFound"
    /\ \E r \in roots : \E c \in vertices[r].children : vertices[c].parents = {r}

\* C15: in every reachable DAG state b is in a.children exactly when a is
\* in b.parents, and every id in a parents or children set is the id of a
\* stored vertex.
C15_EdgeSymmetry ==
    \A a \in Keys(vertices) :
        /\ \A b \in vertices[a].children :
              b \in Keys(vertices) /\ a \in vertices[b].parents
        /\ \A p \in vertices[a].parents :
              p \in Keys(vertices) /\ a \in vertices[p].children

\* C15 witness: after a successful RemoveVertex the DAG still holds a
\* vertex with a parent and a child.
C15_Witness ==
    /\ last.op = "RemoveVertex"
    /\ last.err = "ok"
    /\ \E a \in Keys(vertices) : vertices[a].parents # {} /\ vertices[a].children # {}

\* C16: in every reachable DAG state a stored vertex is in roots exactly
\* when its parent set is empty, and roots holds stored vertices only.
C16_RootConsistency ==
    /\ roots \subseteq Keys(vertices)
    /\ \A v \in Keys(vertices) : v \in roots <=> vertices[v].parents = {}

\* C16 witness: after a successful RemoveVertex the DAG holds a root and a
\* vertex that is not a root.
C16_Witness ==
    /\ last.op = "RemoveVertex"
    /\ last.err = "ok"
    /\ roots # {}
    /\ Keys(vertices) \ roots # {}

\* C17: StopConsensus while not running returns an error and changes
\* nothing; StartConsensus while running returns an error, changes nothing
\* and starts no worker; no StopConsensus closes a closed channel.
C17_StartStopGuarded ==
    /\ [][(StopConsensusCall /\ ~ isRunning)
            => ( /\ last'.err = "NotRunning"
                 /\ UNCHANGED <<vertices, roots, engineVars>> )]_vars
    /\ [][(StartConsensusCall /\ isRunning)
            => ( /\ last'.err = "AlreadyRunning"
                 /\ loops' = loops
                 /\ UNCHANGED <<vertices, roots, engineVars>> )]_vars
    /\ [][(StopConsensusCall /\ isRunning)
            => ( /\ ~ ChanClosed
                 /\ last'.err = "ok" )]_vars

\* C17 witness: a second StopConsensus has returned its error while the
\* stopped worker has not yet left its loop.
C17_Witness ==
    /\ last.op = "StopConsensus"
    /\ last.err = "NotRunning"
    /\ ~ isRunning
    /\ \E l \in Loops : loops[l].pc # "none" /\ loops[l].stop

\* C18: a worker whose stop channel is closed leaves its loop; it leaves
\* only at the select between two rounds, with every id of the round's
\* snapshot handed to processVertex, and the select that finds the channel
\* closed starts no round.
C18_StopTerminatesLoop ==
    /\ \A l \in Loops :
          (loops[l].pc # "none" /\ loops[l].stop) ~> (loops[l].pc = "none")
    /\ [](\A l \in Loops : loops[l].pc \in {"none", "select"} => loops[l].snap = {})
    /\ [][\A l \in Loops :
            (loops[l].pc # "none" /\ loops'[l].pc = "none")
            => (LoopSelect(l) /\ loops[l].stop)]_vars
    /\ [][\A l \in Loops :
            loops'[l].snap # loops[l].snap
            => \/ LoopSnapshot(l)
               \/ /\ LoopProcess(l)
                  /\ \E id \in loops[l].snap : loops'[l].snap = loops[l].snap \ {id}
               \/ LoopSelect(l)]_vars
    /\ [][\A l \in Loops :
            (LoopSelect(l) /\ loops[l].stop) => loops'[l].pc = "none"]_vars

\* C18 witness: the stop channel of a worker was closed while its round
\* is in flight: it holds the samples for one id of its snapshot and has
\* another id of the snapshot still to process.
C18_Witness ==
    \E l \in Loops :
        /\ loops[l].stop
        /\ loops[l].pc = "update"
        /\ loops[l].snap # {}
        /\ ~ isRunning

\* C19: a ProposeVertex whose AddVertex succeeded returns the vertex
\* whatever BroadcastVertex returns and however its transmissions end: the
\* broadcast and the transmissions change neither the DAG nor pending nor
\* finalized nor the call's result, the vertex is in the DAG when the call
\* has returned, and it leaves pending only by being finalized.
C19_BroadcastBestEffort ==
    /\ [][(ProposeBroadcast \/ \E p \in Peers : SendDone(p))
            => ( /\ UNCHANGED <<vertices, roots, pending, finalized>>
                 /\ last'.err = last.err
                 /\ last'.id = last.id )]_vars
    /\ []( (last.op = "ProposeVertex" /\ last.pc = "ret" /\ last.err = "ok")
            => ( /\ last.id \in Keys(vertices)
                 /\ last.id \in Keys(pending) \cup finalized ) )
    /\ [][\A id \in Keys(pending) \ Keys(pending') : id \in finalized']_vars

\* C19 witness: the call has returned the vertex, one of its transmissions
\* has failed, and the vertex is in the DAG and in pending.
C19_Witness ==
    /\ last.op = "ProposeVertex"
    /\ last.pc = "ret"
    /\ last.err = "ok"
    /\ \E p \in Keys(last.sends) : last.sends[p] = "failed"
    /\ last.id \in Keys(vertices)
    /\ last.id \in Keys(pending)

\* C20: scenario S1: with K = 3, Alpha = 2, BetaVirtuous = 5, three
\* unrelated vertices in the DAG and v0 submitted without parents and with
\* data of its own, once the consensus loop runs v0 is eventually
\* finalized, in the engine and in the DAG.
C20_S1Finalizes ==
    (isRunning /\ S1Target \in Keys(pending))
        ~> (S1Target \in finalized /\ vertices[S1Target].finalized)

\* C20 witness: v0 has been finalized with the three other vertices in the
\* DAG and the loop running.
C20_Witness ==
    /\ isRunning
    /\ S1Target \in finalized
    /\ S1Target \in Keys(vertices)
    /\ vertices[S1Target].finalized
    /\ S1Target \notin Keys(pending)
    /\ Cardinality(Keys(vertices)) >= 4

\* C21: a reader never gets from GetVertex or GetAllVertices a vertex that
\* is in neither pending nor finalized, and a vertex GetVertex has returned
\* is not removed from the DAG afterwards.
C21_AtomicInsert ==
    /\ [][\A id \in Ids :
            (ObserveGetVertex(id) /\ last'.err = "ok")
            => id \in Keys(pending) \cup finalized]_vars
    /\ [][ObserveGetAllVertices
            => GetVertices(TheDag) \subseteq Keys(pending) \cup finalized]_vars
    /\ [][(last.op = "GetVertex" /\ last.err = "ok")
            => last.a \in Keys(vertices')]_vars

\* C22: submitting a vertex with the empty id fails with InvalidArgument
\* and inserts nothing into the DAG or pending.
C22_EmptyIdRejected ==
    [][\A data \in Datas, parentIDs \in ParentLists :
          SubmitVertex(EmptyId, data, parentIDs)
          => ( /\ last'.err = "InvalidArgument"
               /\ vertices' = vertices
               /\ roots' = roots
               /\ pending' = pending )]_vars

\* C23: pending never holds more than MaxOutstanding ids.
C23_PendingCapped ==
    Cardinality(Keys(pending)) <= params.MaxOutstanding

\* C24: no two vertices with different ids and equal data are both in the
\* finalized set.
C24_ConflictExclusion ==
    \A x \in finalized, y \in finalized :
        (x # y /\ x \in Keys(vertices) /\ y \in Keys(vertices))
            => vertices[x].data # vertices[y].data

\* C25: checkPreference answers false when the sample or the target is not
\* in the DAG; otherwise true when the target is flagged finalized, or is
\* an ancestor of the sample by parent edges, or the sample is flagged
\* preferred; and only when none of these holds either answer is possible.
C25_Prefers ==
    /\ \A s \in QueryIds, t \in QueryIds :
          s # t =>
            LET answers == checkPreference(TheDag, s, t)
            IN  IF s \notin Keys(vertices) \/ t \notin Keys(vertices)
                THEN answers = {FALSE}
                ELSE IF \/ vertices[t].finalized
                        \/ t \in Ancestors(vertices, s)
                        \/ vertices[s].preferred
                     THEN answers = {TRUE}
                     ELSE answers = {TRUE, FALSE}
    /\ last.op = "checkPreference"
          => (last.err = "true") \in checkPreference(TheDag, last.a, last.b)

\* C25 witness: a sample neither preferred nor facing a finalized target
\* has answered true for a target that is its ancestor, not its parent.
C25_Witness ==
    /\ last.op = "checkPreference"
    /\ last.err = "true"
    /\ last.a \in Keys(vertices)
    /\ last.b \in Keys(vertices)
    /\ ~ vertices[last.b].finalized
    /\ ~ vertices[last.a].preferred
    /\ last.b \in Ancestors(vertices, last.a)
    /\ last.b \notin vertices[last.a].parents

\* C26: on every DAG the store can hold, cyclic ones and ones with shared
\* ancestors included, each search (the cycle check from any child, the
\* ancestor check from any sample; for any id looked for, an id that no
\* vertex of the DAG has included) ends, is called on no vertex twice, and
\* finds exactly the ancestors.
C26_SearchesVisitOnce ==
    \A a \in DagIds \cup {AbsentId}, b \in Keys(vertices) :
        LET r == dfs(vertices, a, b, {})
            c == checkParent(vertices, a, b, {})
        IN  /\ \A i, j \in DOMAIN r.calls : i # j => r.calls[i] # r.calls[j]
            /\ \A i, j \in DOMAIN c.calls : i # j => c.calls[i] # c.calls[j]
            /\ Len(r.calls) <= Cardinality(Keys(vertices))
            /\ Len(c.calls) <= Cardinality(Keys(vertices))
            /\ r.found <=> (a = b \/ a \in Ancestors(vertices, b))
            /\ c.found <=> (a = b \/ a \in Ancestors(vertices, b))

\* C26 witness: a vertex has two parents, one of them a parent of the
\* other, and the searches from it for an id that is not among its
\* ancestors have been called on all three vertices, once each.
C26_Witness ==
    \E v \in Keys(vertices), p \in Keys(vertices), q \in Keys(vertices) :
        /\ {p, q} \subseteq vertices[v].parents
        /\ p \in vertices[q].parents
        /\ v \notin Ancestors(vertices, v)
        /\ Len(checkParent(vertices, AbsentId, v, {}).calls) = 3
        /\ Len(dfs(vertices, AbsentId, v, {}).calls) = 3

\* C27: at any time at most one worker loop is inside a consensus round
\* (between its select and the end of its round), whatever StartConsensus
\* and StopConsensus calls were made.
C27_SingleWorker ==
    Cardinality({l \in Loops : loops[l].pc \notin {"none", "select"}}) <= 1

\* C28: no thread holds the engine lock and the DAG lock at the same time.
C28_NoTwoLocks ==
    \A t \in Threads : ~ (Holds(locks.mu, t) /\ Holds(locks.dmu, t))

\* C29: a step that changes the finalized flag of a vertex is taken by a
\* thread that holds the DAG lock as its writer.
C29_FlagUnderDagLock ==
    [][ (\E id \in Keys(vertices) :
            /\ id \in Keys(vertices')
            /\ vertices'[id].finalized # vertices[id].finalized)
        => \E l \in Loops : locks.dmu.w = Worker(l) ]_vars

\* C30: in every reachable state a vertex whose finalized flag is true in
\* the DAG has its id in the finalized set and not in pending.
C30_FlagAfterState ==
    \A id \in Keys(vertices) :
        vertices[id].finalized => (id \in finalized /\ id \notin Keys(pending))

\* A worker is inside a round: past the snapshot, before the end of round.
InRound(l) == loops[l].pc \in {"iter", "sample", "update"}

\* C31: a round works on the ids that were in pending at its snapshot:
\* the snapshot is the key set of pending; inside the round the set of ids
\* still to process only shrinks, by the one id handed to processVertex,
\* which is taken from it, so an id inserted meanwhile is not processed in
\* this round; while a worker is inside a round an AddVertex with a fresh
\* id can be made; and an id that is pending and not finalized while the
\* service runs is taken up by processVertex later on, unless it leaves
\* pending or the service is stopped first.
C31_RoundOnSnapshot ==
    /\ [][\A l \in Loops :
            (loops[l].pc = "snapshot" /\ loops'[l].pc = "iter")
            => loops'[l].snap = Keys(pending)]_vars
    /\ [][\A l \in Loops :
            (InRound(l) /\ loops'[l].pc # "select")
            => /\ loops'[l].snap \subseteq loops[l].snap
               /\ Cardinality(loops[l].snap \ loops'[l].snap) <= 1
               /\ (loops[l].pc = "iter" /\ loops'[l].pc = "sample")
                  => /\ loops'[l].id \in loops[l].snap
                     /\ loops'[l].id \notin loops'[l].snap]_vars
    /\ [][\A l \in Loops :
            (loops[l].pc = "iter" /\ loops'[l].pc = "select") => loops[l].snap = {}]_vars
    /\ [](\A l \in Loops : \A id \in Ids \ Keys(vertices) :
            InRound(l) => ENABLED AvCall(id, 1, <<>>))
    /\ \A id \in Ids :
          (id \in Keys(pending) /\ id \notin finalized /\ isRunning)
          ~> \/ \E l \in Loops : loops[l].pc = "sample" /\ loops[l].id = id
             \/ id \notin Keys(pending)
             \/ ~ isRunning

\* C31 witness: a running worker is inside a round with an id of its
\* snapshot in processVertex, and another id is pending that is not among
\* the ids the round has still to process, as an id inserted after the
\* snapshot is.
C31_Witness ==
    \E l \in Loops : \E id \in Keys(pending) :
        /\ loops[l].pc = "sample"
        /\ ~ loops[l].stop
        /\ isRunning
        /\ loops[l].id # id
        /\ id \notin loops[l].snap
        /\ pending[id] = 0
        /\ pending[loops[l].id] = 0

\* C32: a worker loop leaves its loop only at the select that finds the
\* stop channel closed; whatever payloads AddVertex accepted, no round ends
\* in a panic.
C32_LoopExitsOnlyOnStop ==
    /\ [](\A l \in Loops : loops[l].pc # "panic")
    /\ [][\A l \in Loops :
            (loops[l].pc # "none" /\ loops'[l].pc = "none")
            => (loops[l].pc = "select" /\ loops[l].stop)]_vars

\* C33: a handled vertex message leaves its sender in the peer directory,
\* whatever became of the vertex, and a sender that was in the directory
\* keeps its address.
C33_SenderRecorded ==
    [][ (\E msg \in Messages, addr \in Addrs : HandleVertexRequest(msg, addr))
        => /\ last'.a \in Keys(net'.peers)
           /\ last'.a \in Keys(net.peers) => net'.peers[last'.a] = net.peers[last'.a] ]_vars

\* C34: the list getSamples returns for a vertex never holds the id of
\* that vertex, and every id in it is the id of a vertex that is in the DAG
\* at the call.
C34_SamplesExcludeTarget ==
    [][\A id \in DagIds :
          Sample(id)
          => /\ id \notin Range(last'.samples)
             /\ Range(last'.samples) \subseteq Keys(vertices)]_vars

\* C34 witness: getSamples has returned a parent of the vertex and a
\* vertex that is not its parent.
C34_Witness ==
    /\ last.op = "getSamples"
    /\ Len(last.samples) = 2
    /\ \E i, j \in DOMAIN last.samples :
          /\ last.samples[i] \in vertices[last.id].parents
          /\ last.samples[j] \notin vertices[last.id].parents

\* C35: while the graph is changed only by engine AddVertex calls, their
\* rollbacks included, no vertex is its own ancestor in any state, a call
\* in progress included; the only vertex whose parents change is the one
\* the call in progress is inserting, and it has no children.
C35_EngineAcyclic ==
    /\ [](\A v \in Keys(vertices) : ~ (v \in Closure(vertices, vertices[v].parents)))
    /\ [][\A v \in Keys(vertices) \cap Keys(vertices') :
            vertices'[v].parents # vertices[v].parents
            => /\ v = av.id
               /\ av.pc = "edges"
               /\ vertices[v].children = {}
               /\ vertices[v].parents \subseteq vertices'[v].parents]_vars

\* C35 witness: an AddVertex call has linked the vertex it is inserting to
\* a parent that an earlier call inserted, and has yet to install it in
\* pending.
C35_Witness ==
    /\ av.pc = "edges"
    /\ av.rest = <<>>
    /\ av.id \in Keys(vertices)
    /\ \E p \in Keys(pending) : vertices[av.id].parents = {p}

\* C36: in every state, engine AddVertex with an id that is not in the DAG
\* and a list of distinct ids of vertices that are succeeds, and gives the
\* same DAG and the same pending for every order of the list.
C36_ParentOrderFree ==
    \A id \in DagIds \ Keys(vertices) :
        \A ps \in SUBSET Keys(vertices) :
            \A l1 \in Perms(ps), l2 \in Perms(ps) :
                LET r1 == EngineAddVertex(TheDag, pending, id, 1, l1)
                    r2 == EngineAddVertex(TheDag, pending, id, 1, l2)
                IN  /\ r1.err = "ok"
                    /\ r1.d = r2.d
                    /\ r1.pending = r2.pending

LockNames == {"mu", "dmu", "pmu"}

\* The locks a thread is calling Lock on.  A call that has not begun is
\* taken to stand at its first Lock: a waiting writer keeps new readers out.
WantsLock(t) ==
    IF t = Caller
    THEN {m \in LockNames :
            \/ m = "mu" /\ av.pc = "idle"
            \/ m = "dmu" /\ CallerAt({"AddVertex", "AddEdge", "RemoveVertex"})
                         /\ locks.dmu.w # Caller
            \/ m = "pmu" /\ av.pc = "AddPeer" /\ locks.pmu.w # Caller}
    ELSE IF t = Reader
    THEN {m \in LockNames : m = "pmu" /\ last.op = "none"}
    ELSE {m \in LockNames :
            /\ m = "mu"
            /\ \E l \in Loops :
                  /\ t = Worker(l)
                  /\ locks.mu.w # t
                  /\ loops[l].pc \in {"consensusRound", "update"}}

\* The locks a thread is calling RLock on.
WantsRLock(t) ==
    IF t = Caller
    THEN {m \in LockNames :
            m = "pmu" /\ av.pc = "BroadcastVertex" /\ Caller \notin locks.pmu.r}
    ELSE IF t = Reader
    THEN {m \in LockNames :
            \/ m = "mu" /\ RequestAt({"IsPending"})
            \/ m = "dmu" /\ RequestAt({"GetFinalized"}) /\ last.calls > 0
                         /\ Reader \notin locks.dmu.r}
    ELSE {m \in LockNames :
            \E l \in Loops :
               /\ t = Worker(l)
               /\ \/ /\ m = "mu"
                     /\ t \notin locks.mu.r
                     /\ loops[l].pc \in {"processVertex", "getSamples", "checkPreference"}
                  \/ /\ m = "dmu"
                     /\ Holds(locks.mu, t)
                     /\ t \notin locks.dmu.r
                     /\ loops[l].pc \in {"getSamples", "checkPreference", "update"}
                     /\ loops[l].preferCount > 0}

\* The threads whose locks keep a thread from the locks it calls for: wl
\* those it calls Lock on, wr those it calls RLock on.
HoldersOf(t, wl, wr) ==
    {u \in Threads \ {t} :
        \E m \in wl \cup wr : locks[m].w = u \/ (m \in wl /\ u \in locks[m].r)}

HeldBack(t) == HoldersOf(t, WantsLock(t), WantsRLock(t))

\* The threads t waits for: those holding the lock, and for an RLock the
\* writers waiting for it.
WaitsFor(t) ==
    HeldBack(t) \cup
    {u \in Threads \ {t} : \E m \in WantsRLock(t) : m \in WantsLock(u)}

\* Who waits for whom, in the present state: the pairs <<t, u>>.
WaitGraph == UNION {{<<t, u>> : u \in WaitsFor(t)} : t \in Threads}

\* The threads reached from those of S along at most k more edges of G.
RECURSIVE WaitChain(_, _, _)
WaitChain(G, S, k) ==
    IF k = 0 THEN S
    ELSE WaitChain(G, S \cup {e[2] : e \in {x \in G : x[1] \in S}}, k - 1)

\* The graph G has a cycle.
Circular(G) == \E t \in Threads : t \in WaitChain(G, {e[2] : e \in {x \in G : x[1] = t}}, Cardinality(Threads))

CircularWait == Circular(WaitGraph)

\* The locks a thread holds.
Held(t) == {m \in LockNames : Holds(locks[m], t)}

\* A thread in the middle of a call.
InCall(t) ==
    IF t = Caller THEN av.pc # "idle"
    ELSE IF t = Reader THEN last.op # "none"
    ELSE \E l \in Loops : t = Worker(l) /\ loops[l].pc # "none"

\* One step of thread t.
StepOf(t) ==
    IF t = Caller
    THEN \/ CallerDagLock
         \/ CallerDagUnlock
         \/ CallerUnlock
         \/ CallerPeerLock
         \/ CallerPeerUnlock
    ELSE IF t = Reader
    THEN \/ RequestDagRUnlock
         \/ RequestRLock(0)
         \/ RequestNestedRLock
         \/ RequestNestedRUnlock
         \/ RequestRUnlock
         \/ RequestPeerUnlock
    ELSE \E l \in Loops :
            /\ t = Worker(l)
            /\ \/ WorkerSelect(l)
               \/ WorkerRoundLock(l)
               \/ \E n \in 0..NumIds : WorkerRoundUnlock(l, n)
               \/ WorkerRLock(l)
               \/ WorkerCheckUnlock(l)
               \/ WorkerDagRLock(l)
               \/ WorkerDagRUnlock(l)
               \/ \E s \in 0..MaxK : WorkerSamplesUnlock(l, s)
               \/ WorkerPreferUnlock(l)
               \/ \E calls \in 0..MaxCalls : WorkerUpdateLock(l, calls)
               \/ WorkerUpdateUnlock(l)

\* C37: no deadlock.  Locks nest only as a.mu then d.mu: a thread holding
\* d.mu or p.mu calls for no lock, a thread holding a.mu only for d.mu, and
\* none calls for a lock it holds.  No thread waits, through any chain of
\* waiting threads, for itself.  A thread in the middle of a call either
\* has a step to take or is held back by a thread that holds the lock it
\* calls for.
C37_NoDeadlock ==
    /\ ~ CircularWait
    /\ \A t \in Threads :
          /\ (WantsLock(t) \cup WantsRLock(t)) \cap Held(t) = {}
          /\ InCall(t) /\ Held(t) \cap {"dmu", "pmu"} # {} =>
                WantsLock(t) \cup WantsRLock(t) = {}
          /\ InCall(t) /\ "mu" \in Held(t) =>
                WantsLock(t) \cup WantsRLock(t) \subseteq {"dmu"}
          /\ InCall(t) => HeldBack(t) # {} \/ ENABLED StepOf(t)

\* AddVertex holds a.mu and waits for d.mu, which a request holds, while
\* two workers wait for a.mu, one to read and one to write.
C37_Witness ==
    /\ locks.mu.w = Caller
    /\ "dmu" \in WantsLock(Caller)
    /\ Reader \in locks.dmu.r
    /\ \E l1, l2 \in Loops :
          /\ "mu" \in WantsRLock(Worker(l1))
          /\ "mu" \in WantsLock(Worker(l2))
          /\ Caller \in HeldBack(Worker(l1)) \cap HeldBack(Worker(l2))
          /\ Reader \in WaitChain(WaitGraph, {Caller}, 1)

\* C38: once every message the remote node posted has arrived, each vertex
\* it proposed with a parent it proposed before is in the DAG of this node,
\* and so is the parent, whatever the order the two messages arrived in.
C38_ParentAndChildArrive ==
    net.inbox = {} =>
        \A c \in Keys(net.remote.d.vertices) :
           \A p \in net.remote.d.vertices[c].parents :
              {p, c} \subseteq Keys(vertices)

PendingCount ==
    Cardinality(GetVertices(TheDag)) - Cardinality(finalized \cap Keys(vertices))

\* C40: while no AddVertex call is in progress, every vertex of the DAG is
\* either pending or finalized and not both, and the pending count of the
\* status report is the size of the pending set.
C40_PendingOrFinalized ==
    av.pc = "idle" =>
        /\ \A id \in Keys(vertices) : (id \in Keys(pending)) # (id \in finalized)
        /\ PendingCount = Cardinality(Keys(pending))

====
